---------------------------- MODULE Spec2Model ----------------------------
(***************************************************************************)
(* SBAPA: statement extraction (src/src/parse_movimentacoes.py) and the    *)
(* reconciliation matcher (src/check.py).                                  *)
(*                                                                         *)
(* Text is modelled as a sequence of one-character strings, so that the    *)
(* string operations of the source (strip, replace, split, startswith,     *)
(* regular expressions, float()) are computed character by character.      *)
(*                                                                         *)
(* A float is modelled as a sign-magnitude decimal                         *)
(*     [ok, neg, num, dec]   standing for   (-1)^neg * num / 10^dec        *)
(* (neg is kept apart from num because Python has a negative zero);        *)
(* ok = FALSE is the failed conversion (None / NaN / ValueError).          *)
(***************************************************************************)
EXTENDS Integers, Sequences, FiniteSets, TLC

VARIABLES
    (* parse_valor_ref, check.py *)
    val_in, val_out, val_pc,
    (* parse_mov, parse_movimentacoes.py *)
    lines, pos, rows, row_from, current_date, skip_next,
    (* extract_transacoes, parse_movimentacoes.py *)
    doc, dpos, cap, out_lines, out_from, opened, blk_rows, blk_pc,
    (* main, check.py *)
    ref_csv, ext_csv, referencia_df, extrato_df, usados, resultados, ri,
    log, chk_pc,
    (* extract_saldos, parse_movimentacoes.py *)
    sal_words, sal_i, datas, saldos, sal_pc,
    (* extract_all_movements, parse_movimentacoes.py *)
    input_dir, pdfs, bat_i, all_rows, bat_log, bat_pc,
    (* list_gaps, main.py *)
    sorted_periodos, dates, gaps, cur, gap_i, gap_pc,
    (* main, main.py *)
    extratos, input_pdfs, csv, backup, processed, raw_pdfs, raw_i, new_count,
    run_parser, main_log, main_events, main_pc

valorVars == <<val_in, val_out, val_pc>>
parseVars == <<lines, pos, rows, row_from, current_date, skip_next>>
blockVars == <<doc, dpos, cap, out_lines, out_from, opened, blk_rows, blk_pc>>
checkVars == <<ref_csv, ext_csv, referencia_df, extrato_df, usados,
               resultados, ri, log, chk_pc>>
saldosVars == <<sal_words, sal_i, datas, saldos, sal_pc>>
batchVars == <<input_dir, pdfs, bat_i, all_rows, bat_log, bat_pc>>
gapVars == <<sorted_periodos, dates, gaps, cur, gap_i, gap_pc>>
mainVars == <<extratos, input_pdfs, csv, backup, processed, raw_pdfs, raw_i,
              new_count, run_parser, main_log, main_events, main_pc>>
tailVars == <<gapVars, mainVars>>
restVars == <<saldosVars, batchVars, tailVars>>
coreVars == <<valorVars, parseVars, blockVars, checkVars>>
vars == <<valorVars, parseVars, blockVars, checkVars, restVars>>

-----------------------------------------------------------------------------
(* Characters and the string operations the source uses.                   *)

Digits == {"0", "1", "2", "3", "4", "5", "6", "7", "8", "9"}

DigitVal ==
    ("0" :> 0) @@ ("1" :> 1) @@ ("2" :> 2) @@ ("3" :> 3) @@ ("4" :> 4) @@
    ("5" :> 5) @@ ("6" :> 6) @@ ("7" :> 7) @@ ("8" :> 8) @@ ("9" :> 9)

DigitChar == <<"0", "1", "2", "3", "4", "5", "6", "7", "8", "9">>

UpperAZ == {"A", "B", "C", "D", "E", "F", "G", "H", "I", "J", "K", "L", "M",
            "N", "O", "P", "Q", "R", "S", "T", "U", "V", "W", "X", "Y", "Z"}

LowerAZ == {"a", "b", "c", "d", "e", "f", "g", "h", "i", "j", "k", "l", "m",
            "n", "o", "p", "q", "r", "s", "t", "u", "v", "w", "x", "y", "z"}

(* The accented letters of the model's alphabet; all lie in the ranges     *)
(* A'-U', a'-u' and C,/c, of PIX_CONTRA_RE's character class.               *)
AccentedUpper == {"Ç", "Ã", "Ê"}
AccentedLower == {"ç", "ã", "ê"}

Whitespace == {" ", "\t"}

IsDigit(c) == c \in Digits

(* str.lower() on one character.                                           *)
LowerChar(c) ==
    CASE c = "A" -> "a" [] c = "B" -> "b" [] c = "C" -> "c" [] c = "D" -> "d"
      [] c = "E" -> "e" [] c = "F" -> "f" [] c = "G" -> "g" [] c = "H" -> "h"
      [] c = "I" -> "i" [] c = "J" -> "j" [] c = "K" -> "k" [] c = "L" -> "l"
      [] c = "M" -> "m" [] c = "N" -> "n" [] c = "O" -> "o" [] c = "P" -> "p"
      [] c = "Q" -> "q" [] c = "R" -> "r" [] c = "S" -> "s" [] c = "T" -> "t"
      [] c = "U" -> "u" [] c = "V" -> "v" [] c = "W" -> "w" [] c = "X" -> "x"
      [] c = "Y" -> "y" [] c = "Z" -> "z" [] c = "Ç" -> "ç" [] c = "Ã" -> "ã"
      [] c = "Ê" -> "ê" [] OTHER -> c

Lower(s) == [i \in 1..Len(s) |-> LowerChar(s[i])]

RECURSIVE LStrip(_)
LStrip(s) ==
    IF s # <<>> /\ Head(s) \in Whitespace THEN LStrip(Tail(s)) ELSE s

RECURSIVE RStrip(_)
RStrip(s) ==
    IF s # <<>> /\ s[Len(s)] \in Whitespace
    THEN RStrip(SubSeq(s, 1, Len(s) - 1)) ELSE s

(* str.strip()                                                             *)
Strip(s) == RStrip(LStrip(s))

(* s[i:] of Python with the 1-based index i of the first character kept.   *)
From(s, i) == SubSeq(s, i, Len(s))

(* s.startswith(p)                                                         *)
StartsWith(s, p) == Len(s) >= Len(p) /\ SubSeq(s, 1, Len(p)) = p

(* s.endswith(p)                                                           *)
EndsWith(s, p) ==
    Len(s) >= Len(p) /\ SubSeq(s, Len(s) - Len(p) + 1, Len(s)) = p

(* p in s                                                                  *)
Contains(s, p) ==
    \E i \in 1..(Len(s) - Len(p) + 1) : SubSeq(s, i, i + Len(p) - 1) = p

(* s.replace(p, r): the non-overlapping occurrences of p, left to right.   *)
RECURSIVE Replace(_, _, _)
Replace(s, p, r) ==
    IF s = <<>> THEN <<>>
    ELSE IF StartsWith(s, p) THEN r \o Replace(From(s, Len(p) + 1), p, r)
    ELSE <<Head(s)>> \o Replace(Tail(s), p, r)

(* The number of occurrences of the character c in s: len(s.split(c)) - 1. *)
Count(s, c) == Cardinality({i \in 1..Len(s) : s[i] = c})

(* len(s.split(c))                                                         *)
SplitLen(s, c) == Count(s, c) + 1

-----------------------------------------------------------------------------
(* Floats.                                                                 *)

None == [ok |-> FALSE, neg |-> FALSE, num |-> 0, dec |-> 0]

Float(n, m, d) == [ok |-> TRUE, neg |-> n, num |-> m, dec |-> d]

RECURSIVE Pow10(_)
Pow10(n) == IF n = 0 THEN 1 ELSE 10 * Pow10(n - 1)

Max(a, b) == IF a >= b THEN a ELSE b

(* The signed numerator of v over the denominator 10^d, d >= v.dec.        *)
Scaled(v, d) ==
    LET m == v.num * Pow10(d - v.dec) IN IF v.neg THEN 0 - m ELSE m

(* a = b, a < b and |a - b| <= 1/100 as numbers; -0.0 = 0.0.               *)
NumEq(a, b) ==
    LET d == Max(a.dec, b.dec) IN Scaled(a, d) = Scaled(b, d)

NumLess(a, b) ==
    LET d == Max(a.dec, b.dec) IN Scaled(a, d) < Scaled(b, d)

IsPositive(v) == v.ok /\ ~v.neg /\ v.num > 0

(* The value in hundredths, for a value with at most two decimals.         *)
Cents(v) == Scaled(v, 2)

RECURSIVE DigitsToNat(_)
DigitsToNat(s) ==
    IF s = <<>> THEN 0
    ELSE 10 * DigitsToNat(SubSeq(s, 1, Len(s) - 1)) + DigitVal[s[Len(s)]]

(* Python's float(s) on the model's alphabet (no exponent, "inf", "nan"    *)
(* or "_" occurs in it): surrounding whitespace is ignored, then an        *)
(* optional sign, then digits with at most one "." and at least one digit. *)
(* Anything else raises ValueError, modelled as None.                      *)
ParseFloat(s) ==
    LET t      == Strip(s)
        signed == t # <<>> /\ Head(t) \in {"-", "+"}
        body   == IF signed THEN Tail(t) ELSE t
        digs   == SelectSeq(body, IsDigit)
        dot    == CHOOSE i \in 1..Len(body) : body[i] = "."
    IN  IF /\ digs # <<>>
           /\ \A i \in 1..Len(body) : body[i] \in Digits \cup {"."}
           /\ Count(body, ".") <= 1
        THEN Float(signed /\ Head(t) = "-",
                   DigitsToNat(digs),
                   IF Count(body, ".") = 1 THEN Len(body) - dot ELSE 0)
        ELSE None

(* -abs(x)                                                                 *)
NegAbs(v) == [v EXCEPT !.neg = TRUE]


-----------------------------------------------------------------------------
(* check.py: parse_valor_ref.                                              *)

(* pd.isna(val): read_csv(dtype=str) reads an empty field as NaN.          *)
IsNA(val) == val = <<>>

parse_valor_ref_KeepsSign(val) ==
    IF IsNA(val) THEN None
    ELSE LET s0 == Replace(Replace(Strip(val), <<"R", "$">>, <<>>), <<" ">>, <<>>)
             s1 == IF SplitLen(s0, ",") > 2 THEN Replace(s0, <<".">>, <<>>) ELSE s0
             s2 == Replace(s1, <<",">>, <<".">>)
         IN  ParseFloat(s2)

parse_valor_ref(val) ==
    IF IsNA(val) THEN None
    ELSE LET s0 == Replace(Replace(Strip(val), <<"R", "$">>, <<>>), <<" ">>, <<>>)
             s1 == IF SplitLen(s0, ",") > 2 THEN Replace(s0, <<".">>, <<>>) ELSE s0
             s2 == Replace(s1, <<",">>, <<".">>)
             f  == ParseFloat(s2)
         IN  IF f.ok THEN NegAbs(f) ELSE None

-----------------------------------------------------------------------------
(* parse_movimentacoes.py: regular expressions and normalizers.            *)

(* DATE_RE = ^(\d{2}/\d{2}) matched at the start of r.                     *)
DateMatch(r) ==
    /\ Len(r) >= 5
    /\ r[1] \in Digits /\ r[2] \in Digits /\ r[3] = "/"
    /\ r[4] \in Digits /\ r[5] \in Digits

(* The number of consecutive digits of s from position p on.              *)
RECURSIVE DigitRun(_, _)
DigitRun(s, p) ==
    IF p <= Len(s) /\ s[p] \in Digits THEN 1 + DigitRun(s, p + 1) ELSE 0

(* The number of consecutive groups \.\d{3} of s from position q on.      *)
RECURSIVE GroupRun(_, _)
GroupRun(s, q) ==
    IF /\ q + 3 <= Len(s)
       /\ s[q] = "."
       /\ s[q + 1] \in Digits /\ s[q + 2] \in Digits /\ s[q + 3] \in Digits
    THEN 1 + GroupRun(s, q + 4) ELSE 0

(* VALOR_RE's tail [.,]\d{2}-?(?!\.) tried at position q: the position of  *)
(* the last character matched, or 0. The optional "-" is greedy: it is     *)
(* given back when a "." follows it.                                       *)
ValorTailEnd(s, q) ==
    IF /\ q + 2 <= Len(s)
       /\ s[q] \in {".", ","}
       /\ s[q + 1] \in Digits /\ s[q + 2] \in Digits
    THEN LET e == q + 2
         IN  IF e + 1 <= Len(s) /\ s[e + 1] = "-"
             THEN IF e + 2 <= Len(s) /\ s[e + 2] = "." THEN e ELSE e + 1
             ELSE IF e + 1 <= Len(s) /\ s[e + 1] = "." THEN 0 ELSE e
    ELSE 0

(* First alternative \d{1,3}(?:\.\d{3})* from p: k digits (3, then 2, then *)
(* 1), then r groups (as many as there are, then fewer), then the tail.    *)
RECURSIVE ValorGroupsEnd(_, _, _)
ValorGroupsEnd(s, q, r) ==
    IF r < 0 THEN 0
    ELSE LET e == ValorTailEnd(s, q + 4 * r)
         IN  IF e # 0 THEN e ELSE ValorGroupsEnd(s, q, r - 1)

RECURSIVE ValorGroupedEnd(_, _, _)
ValorGroupedEnd(s, p, k) ==
    IF k = 0 THEN 0
    ELSE IF DigitRun(s, p) >= k
         THEN LET e == ValorGroupsEnd(s, p + k, GroupRun(s, p + k))
              IN  IF e # 0 THEN e ELSE ValorGroupedEnd(s, p, k - 1)
         ELSE ValorGroupedEnd(s, p, k - 1)

(* Second alternative \d+ from p: m digits (the whole run, then fewer).    *)
RECURSIVE ValorPlainEnd(_, _, _)
ValorPlainEnd(s, p, m) ==
    IF m = 0 THEN 0
    ELSE LET e == ValorTailEnd(s, p + m)
         IN  IF e # 0 THEN e ELSE ValorPlainEnd(s, p, m - 1)

ValorBodyEnd(s, p) ==
    LET a == ValorGroupedEnd(s, p, 3)
    IN  IF a # 0 THEN a ELSE ValorPlainEnd(s, p, DigitRun(s, p))

(* VALOR_RE tried at position i: the optional leading "-" is greedy.       *)
ValorMatchEnd(s, i) ==
    IF s[i] = "-"
    THEN LET e == ValorBodyEnd(s, i + 1)
         IN  IF e # 0 THEN e ELSE ValorBodyEnd(s, i)
    ELSE ValorBodyEnd(s, i)

(* VALOR_RE.search(s): the leftmost match; group(0) is text.               *)
VALOR_RE_search(s) ==
    LET hits == {i \in 1..Len(s) : ValorMatchEnd(s, i) # 0}
    IN  IF hits = {} THEN [found |-> FALSE, text |-> <<>>]
        ELSE LET i == CHOOSE j \in hits : \A h \in hits : j <= h
             IN  [found |-> TRUE, text |-> SubSeq(s, i, ValorMatchEnd(s, i))]

PixLetters == UpperAZ \cup LowerAZ \cup AccentedUpper \cup AccentedLower

RECURSIVE LetterRun_ThroughSpaces(_, _)
LetterRun_ThroughSpaces(s, p) ==
    IF p <= Len(s) /\ s[p] \in PixLetters \cup {" "}
    THEN 1 + LetterRun_ThroughSpaces(s, p + 1) ELSE 0

RECURSIVE LetterRun(_, _)
LetterRun(s, p) ==
    IF p <= Len(s) /\ s[p] \in PixLetters THEN 1 + LetterRun(s, p + 1) ELSE 0

PixKeywords ==
    {<<"P", "I", "X", "E", "N", "V", "I", "A", "D", "O">>,
     <<"P", "I", "X", "R", "E", "C", "E", "B", "I", "D", "O">>}

(* PIX_CONTRA_RE tried at position i: the length of group(1), or 0.        *)
PixContraLen(s, i) ==
    LET t == From(s, i)
        ks == {k \in PixKeywords : StartsWith(t, k)}
    IN  IF ks = {} THEN 0
        ELSE LET j == i + Len(CHOOSE k \in ks : TRUE)
             IN  IF j + 1 <= Len(s) /\ s[j] \in UpperAZ /\ s[j + 1] \in PixLetters
                 THEN 1 + LetterRun(s, j + 1)
                 ELSE 0

(* PIX_CONTRA_RE.search(s).group(1), or "" when there is no match.         *)
PIX_CONTRA_RE_group(s) ==
    LET hits == {i \in 1..Len(s) : PixContraLen(s, i) # 0}
    IN  IF hits = {} THEN <<>>
        ELSE LET i == CHOOSE j \in hits : \A h \in hits : j <= h
                 n == PixContraLen(s, i)
                 k == CHOOSE kw \in PixKeywords : StartsWith(From(s, i), kw)
             IN  SubSeq(s, i + Len(k), i + Len(k) + n - 1)

br_number_to_float(s) ==
    ParseFloat(Replace(Replace(s, <<".">>, <<>>), <<",">>, <<".">>))

normalize_money(txt) ==
    LET neg == EndsWith(txt, <<"-">>)
        val == br_number_to_float(Replace(txt, <<"-">>, <<>>))
    IN  IF neg THEN [val EXCEPT !.neg = ~val.neg] ELSE val

detect_via(text) ==
    LET t == Lower(text)
    IN  IF \/ Contains(t, <<"p", "i", "x", "e", "n", "v", "i", "a", "d", "o">>)
           \/ Contains(t, <<"p", "i", "x", "r", "e", "c", "e", "b", "i", "d", "o">>)
        THEN "pix"
        ELSE IF Contains(t, <<"d", "e", "b", "i", "t", "o">>) THEN "debito"
        ELSE IF Contains(t, <<"r", "e", "m", "u", "n", "e", "r", "a", "c", "a", "o">>)
             THEN "rendimentos"
        ELSE IF Contains(t, <<"t", "a", "r", "i", "f", "a">>) THEN "tarifa"
        ELSE "outro"

detect_contraparte(text, via) ==
    IF via # "pix" THEN <<>> ELSE PIX_CONTRA_RE_group(text)

RECURSIVE NatToDigits(_)
NatToDigits(n) ==
    IF n < 10 THEN <<DigitChar[n + 1]>>
    ELSE NatToDigits(n \div 10) \o <<DigitChar[(n % 10) + 1]>>

(* f"{val:.2f}" for a value with at most two decimals (every amount that   *)
(* VALOR_RE matches has exactly two, or none after "." was dropped).       *)
FormatF2(v) ==
    LET c == v.num * Pow10(2 - v.dec)
    IN  (IF v.neg THEN <<"-">> ELSE <<>>)
        \o NatToDigits(c \div 100)
        \o <<".", DigitChar[((c \div 10) % 10) + 1], DigitChar[(c % 10) + 1]>>

-----------------------------------------------------------------------------
(* Idle values of the variable groups a specification does not use.        *)

IdleValor == val_in = <<>> /\ val_out = None /\ val_pc = "idle"

IdleParse ==
    /\ lines = <<>> /\ pos = 1 /\ rows = <<>> /\ row_from = <<>>
    /\ current_date = <<>> /\ skip_next = FALSE

IdleBlock ==
    /\ doc = <<>> /\ dpos = 1 /\ cap = FALSE
    /\ out_lines = <<>> /\ out_from = <<>> /\ opened = {} /\ blk_rows = <<>>
    /\ blk_pc = "idle"

IdleCheck ==
    /\ ref_csv = <<>> /\ ext_csv = <<>> /\ referencia_df = <<>>
    /\ extrato_df = <<>> /\ usados = {} /\ resultados = <<>> /\ ri = 1
    /\ log = <<>> /\ chk_pc = "idle"

IdleSaldos ==
    /\ sal_words = <<>> /\ sal_i = 1 /\ datas = <<>> /\ saldos = <<>>
    /\ sal_pc = "idle"

IdleBatch ==
    /\ input_dir = <<>> /\ pdfs = <<>> /\ bat_i = 1 /\ all_rows = <<>>
    /\ bat_log = <<>> /\ bat_pc = "idle"

IdleGaps ==
    /\ sorted_periodos = <<>> /\ dates = <<>> /\ gaps = <<>>
    /\ cur = [year |-> 1, month |-> 1] /\ gap_i = 1 /\ gap_pc = "idle"

IdleMain ==
    /\ extratos = <<>> /\ input_pdfs = <<>>
    /\ csv = [exists |-> FALSE, periodos |-> {}]
    /\ backup = [exists |-> FALSE, periodos |-> {}]
    /\ processed = {} /\ raw_pdfs = <<>> /\ raw_i = 1 /\ new_count = 0
    /\ run_parser = FALSE /\ main_log = <<>> /\ main_events = <<>>
    /\ main_pc = "idle"

IdleTail == IdleGaps /\ IdleMain

IdleRest == IdleSaldos /\ IdleBatch /\ IdleTail

-----------------------------------------------------------------------------
(* SpecValor: parse_valor_ref applied to the Valor cell of one reference   *)
(* row (check.py line 115).                                                *)

ValorPrefixes == {<<>>, <<"R", "$", " ">>, <<"R", "$">>, <<"-">>, <<" ">>}

ValorIntParts ==
    {<<"1", ".", "2", "3", "4">>, <<"1", "5", "0">>, <<"0">>, <<"1", "2", "3", "4">>,
     <<"1", ",", "2", "3", "4">>, <<"x">>, <<>>}

ValorDecParts ==
    {<<",", "5", "6">>, <<>>, <<".", "5">>, <<",", "0", "0", " ">>}

ValorTexts ==
    {p \o i \o d : p \in ValorPrefixes, i \in ValorIntParts, d \in ValorDecParts}

ValorInit ==
    /\ val_in \in ValorTexts /\ val_out = None /\ val_pc = "start"
    /\ IdleParse /\ IdleBlock /\ IdleCheck /\ IdleRest

ApplyParseValorRef ==
    /\ val_pc = "start"
    /\ val_out' = parse_valor_ref(val_in)
    /\ val_pc' = "done"
    /\ UNCHANGED <<val_in, parseVars, blockVars, checkVars, restVars>>

ValorNext == ApplyParseValorRef

SpecValor == ValorInit /\ [][ValorNext]_vars

(* The localized format of a reference amount: an optional "R$" marker and *)
(* spaces, digits in groups of three separated by ".", and one "," followed *)
(* by the decimals.                                                        *)
IsGrouped(s) ==
    \E k \in 1..3 :
        /\ Len(s) >= k
        /\ (Len(s) - k) % 4 = 0
        /\ \A i \in 1..k : s[i] \in Digits
        /\ \A j \in 0..((Len(s) - k) \div 4 - 1) :
              /\ s[k + 4 * j + 1] = "."
              /\ \A i \in 2..4 : s[k + 4 * j + i] \in Digits

LocalizedBody(text) == Replace(Replace(text, <<"R", "$">>, <<>>), <<" ">>, <<>>)

IsLocalizedAmount(text) ==
    LET b == LocalizedBody(text)
        c == CHOOSE i \in 1..Len(b) : b[i] = ","
    IN  /\ Count(b, ",") = 1
        /\ IsGrouped(SubSeq(b, 1, c - 1))
        /\ c < Len(b)
        /\ \A i \in (c + 1)..Len(b) : b[i] \in Digits

LocalizedValue(text) ==
    ParseFloat(Replace(Replace(LocalizedBody(text), <<".">>, <<>>), <<",">>, <<".">>))

(* C2: parse_valor_ref maps every reference amount written in the         *)
(* localized format (optional R$ and spaces, "." for thousands, one "," for *)
(* the decimals), such as "R$ 1.234,56", to minus its absolute value       *)
(* (-1234.56): the entry is kept, not dropped as unparsable.               *)
C2_LocalizedAmountIsNegated ==
    (val_pc = "done" /\ IsLocalizedAmount(val_in)) =>
        /\ val_out.ok
        /\ val_out.neg
        /\ NumEq(val_out, NegAbs(LocalizedValue(val_in)))

(* The part of C2 the code does satisfy: localized amounts written without *)
(* a thousands separator.                                                  *)
ValorWithoutThousandsIsNegated ==
    (val_pc = "done" /\ IsLocalizedAmount(val_in) /\ Count(val_in, ".") = 0) =>
        /\ val_out.ok
        /\ val_out.neg
        /\ NumEq(val_out, NegAbs(LocalizedValue(val_in)))


-----------------------------------------------------------------------------
(* SpecParse: parse_mov, one action per iteration of its loop over lines.  *)
(* pos is the 1-based index of the line the loop is about to read;         *)
(* row_from[k] is the index of the line rows[k] was emitted from.          *)

MaxLines == 3

LineScenario1 ==
    <<"0", "5", "/", "0", "3", "P", "I", "X", "R", "E", "C", "E", "B", "I", "D", "O", "M", "A", "R", "I", "A", " ", "S", "I", "L", "V", "A", " ", "1", "5", "0", ",", "0", "0">>

LineMarkerDated ==
    <<"0", "6", "/", "0", "3", "T", "R", "A", "N", "S", "F", "E", "R", "E", "N", "C", "I", "A", "P", "R", "O", "G", "R", "A", "M", "A", "D", "A", " ", "2", "0", "0", ",", "0", "0", "-">>

LineMarkerNoAmount ==
    <<"T", "R", "A", "N", "S", "F", "P", "R", "O", "G", "D", "I", "F", "E", "R", "E", "N", "T", "E", "T", "I", "T", "U", "L", "A", "R", "I", "D", "A", "D", "E">>

LineMarkerUndated ==
    <<"T", "R", "A", "N", "S", "F", "E", "R", "E", "N", "C", "I", "A", "P", "R", "O", "G", "R", "A", "M", "A", "D", "A", " ", "1", ",", "0", "0">>

LinePixZero ==
    <<"P", "I", "X", "E", "N", "V", "I", "A", "D", "O", "J", "O", "Ã", "O", " ", "0", ",", "0", "0", "-">>

LineDateOnly ==
    <<"0", "7", "/", "0", "3">>

LineBlank ==
    <<" ", " ">>

LinePadded ==
    <<" ", "0", "8", "/", "0", "3", "T", "A", "R", "I", "F", "A", " ", "1", ".", "2", "3", "4", ",", "5", "6", "-", " ">>

LineDebitoDot ==
    <<"D", "E", "B", "I", "T", "O", " ", "1", "0", ".", "0", "0">>

LinePixLower ==
    <<"p", "i", "x", "r", "e", "c", "e", "b", "i", "d", "o", " ", "0", ",", "0", "0">>

LineLeadingMinus ==
    <<"0", "9", "/", "0", "3", "R", "E", "M", "U", "N", "E", "R", "A", "C", "A", "O", " ", "-", "3", ",", "0", "0">>

LineMarkerOtherDate ==
    <<"1", "0", "/", "0", "3", "T", "R", "A", "N", "S", "F", "P", "R", "O", "G", "D", "I", "F", "E", "R", "E", "N", "T", "E", "T", "I", "T", "U", "L", "A", "R", "I", "D", "A", "D", "E", " ", "5", ",", "0", "0">>

ParseCorpus ==
    {LineScenario1, LineMarkerDated, LineMarkerNoAmount, LineMarkerUndated,
     LinePixZero, LineDateOnly, LineBlank, LinePadded, LineDebitoDot,
     LinePixLower, LineLeadingMinus, LineMarkerOtherDate}

SeqsUpTo(S, n) == UNION {[1..k -> S] : k \in 0..n}

ParseInit ==
    /\ lines \in SeqsUpTo(ParseCorpus, MaxLines)
    /\ pos = 1 /\ rows = <<>> /\ row_from = <<>>
    /\ current_date = <<>> /\ skip_next = FALSE
    /\ IdleValor /\ IdleBlock /\ IdleCheck /\ IdleRest

MarkerProgramada ==
    <<"T", "R", "A", "N", "S", "F", "E", "R", "E", "N", "C", "I", "A",
      "P", "R", "O", "G", "R", "A", "M", "A", "D", "A">>

MarkerTitularidade ==
    <<"T", "R", "A", "N", "S", "F", "P", "R", "O", "G", "D", "I", "F", "E", "R",
      "E", "N", "T", "E", "T", "I", "T", "U", "L", "A", "R", "I", "D", "A", "D", "E">>

HasMarker(r) == Contains(r, MarkerProgramada) \/ Contains(r, MarkerTitularidade)

(* Lines 95-103: the stripped line, the date in force after it, and the    *)
(* content the amount is searched in.                                      *)
DateAfter(r, cd) == IF DateMatch(r) THEN SubSeq(r, 1, 5) ELSE cd

ContentOf(r) == IF DateMatch(r) THEN Strip(From(r, 6)) ELSE r

MakeRow_ZeroIsReceived(r, cd) ==
    LET content == ContentOf(r)
        val     == normalize_money(VALOR_RE_search(content).text)
        via     == detect_via(content)
    IN  [data          |-> cd,
         valor         |-> FormatF2(val),
         via           |-> via,
         tipo          |-> IF val.ok /\ ~val.neg THEN "recebido" ELSE "enviado",
         contraparte   |-> detect_contraparte(content, via),
         descricao_raw |-> r]

(* Lines 109-123: the row of a line with an amount.                        *)
MakeRow(r, cd) ==
    LET content == ContentOf(r)
        val     == normalize_money(VALOR_RE_search(content).text)
        via     == detect_via(content)
    IN  [data          |-> cd,
         valor         |-> FormatF2(val),
         via           |-> via,
         tipo          |-> IF IsPositive(val) THEN "recebido" ELSE "enviado",
         contraparte   |-> detect_contraparte(content, via),
         descricao_raw |-> r]

ParseRunning == pos <= Len(lines)

ParseSkipped_UpdatesDate ==
    /\ ParseRunning
    /\ skip_next
    /\ skip_next' = FALSE
    /\ current_date' = DateAfter(Strip(lines[pos]), current_date)
    /\ pos' = pos + 1
    /\ UNCHANGED <<lines, rows, row_from>>
    /\ UNCHANGED <<valorVars, blockVars, checkVars, restVars>>

(* Lines 92-94.                                                            *)
ParseSkipped ==
    /\ ParseRunning
    /\ skip_next
    /\ skip_next' = FALSE
    /\ pos' = pos + 1
    /\ UNCHANGED <<lines, rows, row_from, current_date>>
    /\ UNCHANGED <<valorVars, blockVars, checkVars, restVars>>

(* Lines 95-97.                                                            *)
ParseBlank ==
    /\ ParseRunning
    /\ ~skip_next
    /\ Strip(lines[pos]) = <<>>
    /\ pos' = pos + 1
    /\ UNCHANGED <<lines, rows, row_from, current_date, skip_next>>
    /\ UNCHANGED <<valorVars, blockVars, checkVars, restVars>>

(* Lines 98-105: no date has been seen yet.                                *)
ParseUndated ==
    /\ ParseRunning
    /\ ~skip_next
    /\ Strip(lines[pos]) # <<>>
    /\ DateAfter(Strip(lines[pos]), current_date) = <<>>
    /\ pos' = pos + 1
    /\ UNCHANGED <<lines, rows, row_from, current_date, skip_next>>
    /\ UNCHANGED <<valorVars, blockVars, checkVars, restVars>>

ParseNoAmount_DropsDate ==
    LET r == Strip(lines[pos]) IN
    /\ ParseRunning
    /\ ~skip_next
    /\ r # <<>>
    /\ DateAfter(r, current_date) # <<>>
    /\ ~VALOR_RE_search(ContentOf(r)).found
    /\ pos' = pos + 1
    /\ UNCHANGED <<lines, rows, row_from, skip_next, current_date>>
    /\ UNCHANGED <<valorVars, blockVars, checkVars, restVars>>

(* Lines 98-108: a date is in force and the content holds no amount.       *)
ParseNoAmount ==
    LET r == Strip(lines[pos]) IN
    /\ ParseRunning
    /\ ~skip_next
    /\ r # <<>>
    /\ DateAfter(r, current_date) # <<>>
    /\ ~VALOR_RE_search(ContentOf(r)).found
    /\ current_date' = DateAfter(r, current_date)
    /\ pos' = pos + 1
    /\ UNCHANGED <<lines, rows, row_from, skip_next>>
    /\ UNCHANGED <<valorVars, blockVars, checkVars, restVars>>

ParseEmit_NeverSetsSkip ==
    LET r == Strip(lines[pos]) IN
    /\ ParseRunning
    /\ ~skip_next
    /\ r # <<>>
    /\ DateAfter(r, current_date) # <<>>
    /\ VALOR_RE_search(ContentOf(r)).found
    /\ current_date' = DateAfter(r, current_date)
    /\ rows' = Append(rows, MakeRow(r, DateAfter(r, current_date)))
    /\ row_from' = Append(row_from, pos)
    /\ skip_next' = FALSE
    /\ pos' = pos + 1
    /\ UNCHANGED lines
    /\ UNCHANGED <<valorVars, blockVars, checkVars, restVars>>

(* Lines 98-125: a row is appended; a continuation marker sets skip_next.  *)
(* normalize_money cannot raise here: see NormalizeMoneyNeverRaises.       *)
ParseEmit ==
    LET r == Strip(lines[pos]) IN
    /\ ParseRunning
    /\ ~skip_next
    /\ r # <<>>
    /\ DateAfter(r, current_date) # <<>>
    /\ VALOR_RE_search(ContentOf(r)).found
    /\ current_date' = DateAfter(r, current_date)
    /\ rows' = Append(rows, MakeRow(r, DateAfter(r, current_date)))
    /\ row_from' = Append(row_from, pos)
    /\ skip_next' = HasMarker(r)
    /\ pos' = pos + 1
    /\ UNCHANGED lines
    /\ UNCHANGED <<valorVars, blockVars, checkVars, restVars>>

ParseNext ==
    \/ ParseSkipped
    \/ ParseBlank
    \/ ParseUndated
    \/ ParseNoAmount
    \/ ParseEmit

SpecParse == ParseInit /\ [][ParseNext]_vars

(* float() succeeds on every amount VALOR_RE matches, so line 110 never    *)
(* raises.                                                                 *)
NormalizeMoneyNeverRaises ==
    \A i \in 1..Len(lines) :
        LET m == VALOR_RE_search(ContentOf(Strip(lines[i])))
        IN  m.found => normalize_money(m.text).ok


ParseDone == pos > Len(lines)

RowsFrom(i) == {k \in 1..Len(rows) : row_from[k] = i}

Scenario1Row(cp) ==
    [data          |-> <<"0", "5", "/", "0", "3">>,
     valor         |-> <<"1", "5", "0", ".", "0", "0">>,
     via           |-> "pix",
     tipo          |-> "recebido",
     contraparte   |-> cp,
     descricao_raw |-> LineScenario1]

(* C3 as stated: parsing the single line                                   *)
(* "05/03PIXRECEBIDOMARIA SILVA 150,00" emits exactly one transaction,     *)
(* date 05/03, amount 150.00, channel pix, direction received, whose       *)
(* counterparty is "MARIA SILVA".                                          *)
C3_Scenario1_CounterpartyFullName ==
    (lines = <<LineScenario1>> /\ ParseDone) =>
        rows = <<Scenario1Row(<<"M", "A", "R", "I", "A", " ", "S", "I", "L", "V", "A">>)>>

(* C3 amended: the same line emits exactly one transaction, date 05/03,    *)
(* amount 150.00, channel pix, direction received, whose counterparty is   *)
(* "MARIA": the letters after the keyword up to the first non-letter.      *)
C3_Scenario1_CounterpartyFirstToken ==
    (lines = <<LineScenario1>> /\ ParseDone) =>
        rows = <<Scenario1Row(<<"M", "A", "R", "I", "A">>)>>

C3_Witness ==
    lines = <<LineScenario1>> /\ ParseDone /\ Len(rows) = 1

(* C4: every emitted transaction has direction "recebido" exactly when its *)
(* amount (the emitted valor text read back as a number) is greater than   *)
(* zero, and a non-empty counterparty only when its channel is pix.        *)
C4_DirectionAndCounterparty ==
    \A k \in 1..Len(rows) :
        /\ rows[k].tipo \in {"recebido", "enviado"}
        /\ rows[k].tipo = "recebido" <=> IsPositive(ParseFloat(rows[k].valor))
        /\ rows[k].contraparte # <<>> => rows[k].via = "pix"

C4_Witness ==
    /\ \E k \in 1..Len(rows) :
          rows[k].tipo = "recebido" /\ rows[k].contraparte # <<>>
    /\ \E k \in 1..Len(rows) :
          rows[k].tipo = "enviado" /\ ParseFloat(rows[k].valor).num = 0
    /\ \E k \in 1..Len(rows) :
          rows[k].tipo = "enviado" /\ rows[k].via # "pix"

(* C5 as stated: whenever a line containing a continuation marker is       *)
(* immediately followed by a non-empty line, the parser emits exactly one  *)
(* transaction from the marker line and none from the line that follows.   *)
C5_MarkerLineAlwaysSkipsNext ==
    \A i \in 1..(Len(lines) - 1) :
        (pos > i + 1 /\ HasMarker(lines[i]) /\ Strip(lines[i + 1]) # <<>>) =>
            Cardinality(RowsFrom(i)) = 1 /\ RowsFrom(i + 1) = {}

(* C5 amended: whenever a line containing a continuation marker emits a    *)
(* transaction (it is not itself skipped, a date is in force and it holds  *)
(* an amount) and is followed by a non-empty line, the parser emits        *)
(* exactly one transaction from the marker line and none from the line     *)
(* that follows; after a marker line that emits nothing, a following line  *)
(* that starts with a date and holds an amount emits its transaction.      *)
C5_EmittingMarkerLineSkipsNext ==
    \A i \in 1..(Len(lines) - 1) :
        (pos > i + 1 /\ HasMarker(lines[i]) /\ Strip(lines[i + 1]) # <<>>) =>
            /\ RowsFrom(i) # {} =>
                  Cardinality(RowsFrom(i)) = 1 /\ RowsFrom(i + 1) = {}
            /\ (/\ RowsFrom(i) = {}
                /\ DateMatch(Strip(lines[i + 1]))
                /\ VALOR_RE_search(ContentOf(Strip(lines[i + 1]))).found) =>
                  Cardinality(RowsFrom(i + 1)) = 1

C5_Witness ==
    /\ Len(lines) >= 2
    /\ lines[1] = LineMarkerDated /\ lines[2] = LineScenario1
    /\ pos = 3
    /\ RowsFrom(1) # {} /\ RowsFrom(2) = {}


-----------------------------------------------------------------------------
(* parse_mov as a function of its argument: the loop of lines 91-125       *)
(* folded over the lines.                                                  *)

RECURSIVE ParseFold(_, _, _, _, _)
ParseFold(ls, i, cd, sk, acc) ==
    IF i > Len(ls) THEN acc
    ELSE LET r  == Strip(ls[i])
             nd == DateAfter(r, cd)
         IN  IF sk THEN ParseFold(ls, i + 1, cd, FALSE, acc)
             ELSE IF r = <<>> THEN ParseFold(ls, i + 1, cd, FALSE, acc)
             ELSE IF nd = <<>> THEN ParseFold(ls, i + 1, cd, FALSE, acc)
             ELSE IF ~VALOR_RE_search(ContentOf(r)).found
                  THEN ParseFold(ls, i + 1, nd, FALSE, acc)
             ELSE ParseFold(ls, i + 1, nd, HasMarker(r), Append(acc, MakeRow(r, nd)))

parse_mov(ls) == ParseFold(ls, 1, <<>>, FALSE, <<>>)

(* The loop run step by step ends with the rows of the folded loop.        *)
ParseStepsAgreeWithFold == ParseDone => rows = parse_mov(lines)

-----------------------------------------------------------------------------
(* SpecBlock: extract_transacoes. The document is the sequence of the      *)
(* lines of its pages, a PageBreak item standing between two pages; dpos   *)
(* is the item the loops are about to read. out_from[k] is the position    *)
(* in doc of out_lines[k]; opened holds the positions of the lines that    *)
(* switched cap on.                                                        *)

MaxDocLen == 5

(* str.splitlines() splits at a form feed, so no line contains one.        *)
PageBreak == <<"\f">>

BlkHeaderLine ==
    <<"M", "o", "v", "i", "m", "e", "n", "t", "a", "ç", "ã", "o">>

BlkTrailerLine ==
    <<" ", "S", "e", " ", "V", "O", "C", "Ê", " ", "n", "ã", "o", " ", "t", "e", "m">>

BlkBalanceSpaced ==
    <<" ", "S", "A", "L", "D", "O", " ", "E", "M", " ", "1", ",", "0", "0">>

BlkBalancePlain ==
    <<"S", "A", "L", "D", "O", "E", "M">>

BlkMovementLine ==
    <<" ", "0", "5", "/", "0", "3", "P", "I", "X", " ", "1", ",", "0", "0", " ">>

BlockCorpus ==
    {BlkHeaderLine, BlkTrailerLine, BlkBalanceSpaced, BlkBalancePlain,
     BlkMovementLine, PageBreak}

HeaderKeyword ==
    <<"M", "o", "v", "i", "m", "e", "n", "t", "a", "ç", "ã", "o">>

TrailerPrefix ==
    <<"s", "e", "v", "o", "c", "ê", "n", "ã", "o", "t", "e", "m">>

(* Line 137.                                                               *)
IsHeader(ln) == Contains(Strip(ln), HeaderKeyword)

(* Line 140.                                                               *)
IsTrailer(ln) ==
    StartsWith(Lower(Replace(Strip(ln), <<" ">>, <<>>)), TrailerPrefix)

(* Line 143.                                                               *)
IsBalance(ln) ==
    \/ StartsWith(Strip(ln), <<"S", "A", "L", "D", "O", "E", "M">>)
    \/ StartsWith(Strip(ln), <<"S", "A", "L", "D", "O", " ", "E", "M">>)

(* The first item of the page after the one position p lies in, or the     *)
(* end of the document: where the scan resumes after line 142's break.     *)
RECURSIVE NextPageStart(_, _)
NextPageStart(d, p) ==
    IF p > Len(d) THEN p
    ELSE IF d[p] = PageBreak THEN p + 1
    ELSE NextPageStart(d, p + 1)

BlockInit ==
    /\ doc \in SeqsUpTo(BlockCorpus, MaxDocLen)
    /\ dpos = 1 /\ cap = FALSE
    /\ out_lines = <<>> /\ out_from = <<>> /\ opened = {} /\ blk_rows = <<>>
    /\ blk_pc = "scan"
    /\ IdleValor /\ IdleParse /\ IdleCheck /\ IdleRest

BlkAtLine == blk_pc = "scan" /\ dpos <= Len(doc) /\ doc[dpos] # PageBreak

(* Line 133: the lines of a page are exhausted, the next page begins.      *)
BlkNextPage ==
    /\ blk_pc = "scan" /\ dpos <= Len(doc) /\ doc[dpos] = PageBreak
    /\ dpos' = dpos + 1
    /\ UNCHANGED <<doc, cap, out_lines, out_from, opened, blk_rows, blk_pc>>
    /\ UNCHANGED <<valorVars, parseVars, checkVars, restVars>>

(* Lines 136-139, the keyword is in the line.                              *)
BlkHeader ==
    /\ BlkAtLine
    /\ ~cap
    /\ IsHeader(doc[dpos])
    /\ cap' = TRUE
    /\ opened' = opened \cup {dpos}
    /\ dpos' = dpos + 1
    /\ UNCHANGED <<doc, out_lines, out_from, blk_rows, blk_pc>>
    /\ UNCHANGED <<valorVars, parseVars, checkVars, restVars>>

(* Lines 136-139, the keyword is not in the line.                          *)
BlkBefore ==
    /\ BlkAtLine
    /\ ~cap
    /\ ~IsHeader(doc[dpos])
    /\ dpos' = dpos + 1
    /\ UNCHANGED <<doc, cap, out_lines, out_from, opened, blk_rows, blk_pc>>
    /\ UNCHANGED <<valorVars, parseVars, checkVars, restVars>>

(* Lines 140-142: cap is cleared and break leaves the loop over this       *)
(* page's lines; the loop over the pages goes on.                          *)
BlkTrailer ==
    /\ BlkAtLine
    /\ cap
    /\ IsTrailer(doc[dpos])
    /\ cap' = FALSE
    /\ dpos' = NextPageStart(doc, dpos)
    /\ UNCHANGED <<doc, out_lines, out_from, opened, blk_rows, blk_pc>>
    /\ UNCHANGED <<valorVars, parseVars, checkVars, restVars>>

BlkBalance_Yields ==
    /\ BlkAtLine
    /\ cap
    /\ ~IsTrailer(doc[dpos])
    /\ IsBalance(doc[dpos])
    /\ out_lines' = Append(out_lines, doc[dpos])
    /\ out_from' = Append(out_from, dpos)
    /\ dpos' = dpos + 1
    /\ UNCHANGED <<doc, cap, opened, blk_rows, blk_pc>>
    /\ UNCHANGED <<valorVars, parseVars, checkVars, restVars>>

(* Lines 143-144.                                                          *)
BlkBalance ==
    /\ BlkAtLine
    /\ cap
    /\ ~IsTrailer(doc[dpos])
    /\ IsBalance(doc[dpos])
    /\ dpos' = dpos + 1
    /\ UNCHANGED <<doc, cap, out_lines, out_from, opened, blk_rows, blk_pc>>
    /\ UNCHANGED <<valorVars, parseVars, checkVars, restVars>>

(* Line 145.                                                               *)
BlkYield ==
    /\ BlkAtLine
    /\ cap
    /\ ~IsTrailer(doc[dpos])
    /\ ~IsBalance(doc[dpos])
    /\ out_lines' = Append(out_lines, doc[dpos])
    /\ out_from' = Append(out_from, dpos)
    /\ dpos' = dpos + 1
    /\ UNCHANGED <<doc, cap, opened, blk_rows, blk_pc>>
    /\ UNCHANGED <<valorVars, parseVars, checkVars, restVars>>

(* Line 146: the lines collected are handed to parse_mov.                  *)
BlkReturn ==
    /\ blk_pc = "scan" /\ dpos > Len(doc)
    /\ blk_rows' = parse_mov(out_lines)
    /\ blk_pc' = "done"
    /\ UNCHANGED <<doc, dpos, cap, out_lines, out_from, opened>>
    /\ UNCHANGED <<valorVars, parseVars, checkVars, restVars>>

BlockNext ==
    \/ BlkNextPage
    \/ BlkHeader
    \/ BlkBefore
    \/ BlkTrailer
    \/ BlkBalance
    \/ BlkYield
    \/ BlkReturn

SpecBlock == BlockInit /\ [][BlockNext]_vars

(* What the claim calls a balance-row line and a trailer-marker line.      *)
BalanceRowPrefixes ==
    {<<"S", "A", "L", "D", "O", "E", "M">>, <<"S", "A", "L", "D", "O", " ", "E", "M">>}

LooksLikeBalanceRow(ln) == \E p \in BalanceRowPrefixes : StartsWith(Strip(ln), p)

(* extract_transacoes' list of lines as a function of the document: the   *)
(* two loops of lines 133-145 folded over the items from position p on.    *)
RECURSIVE ScanFold(_, _, _, _)
ScanFold(d, p, c, acc) ==
    IF p > Len(d) THEN acc
    ELSE IF d[p] = PageBreak THEN ScanFold(d, p + 1, c, acc)
    ELSE IF ~c THEN ScanFold(d, p + 1, IsHeader(d[p]), acc)
    ELSE IF IsTrailer(d[p]) THEN ScanFold(d, NextPageStart(d, p), FALSE, acc)
    ELSE IF IsBalance(d[p]) THEN ScanFold(d, p + 1, c, acc)
    ELSE ScanFold(d, p + 1, c, Append(acc, d[p]))

(* C6: every line handed to the parser is a line of the document, passed   *)
(* verbatim, that comes after a line containing the header keyword with no *)
(* trailer-marker line between that header and it (itself included); it is *)
(* not a line that opened the block and not a balance row; the lines keep  *)
(* document order; and the sequence handed over is a function of the text  *)
(* alone, so a second run on the same text yields the same sequence.       *)
C6_YieldedLinesInsideBlock ==
    /\ Len(out_from) = Len(out_lines)
    /\ \A k \in 1..Len(out_lines) :
          LET p == out_from[k] IN
          /\ p \in 1..Len(doc)
          /\ out_lines[k] = doc[p]
          /\ doc[p] # PageBreak
          /\ \E h \in 1..(p - 1) :
                /\ Contains(doc[h], HeaderKeyword)
                /\ \A q \in (h + 1)..p : ~IsTrailer(doc[q])
          /\ p \notin opened
          /\ ~LooksLikeBalanceRow(doc[p])
    /\ \A j, k \in 1..Len(out_from) : j < k => out_from[j] < out_from[k]
    /\ blk_pc = "done" => out_lines = ScanFold(doc, 1, FALSE, <<>>)

C6_Witness ==
    /\ blk_pc = "done"
    /\ doc = <<BlkHeaderLine, BlkBalanceSpaced, BlkMovementLine, BlkTrailerLine>>
    /\ out_lines = <<BlkMovementLine>>


-----------------------------------------------------------------------------
(* SpecCheck: check.py's main. ref_csv and ext_csv are the rows of         *)
(* referencia.csv and movimentacoes.csv as text; referencia_df and         *)
(* extrato_df are the frames after lines 111-130, each row keeping its     *)
(* pandas index idx (the 0-based row of the file: dropna leaves gaps).     *)
(* log[j] records, for the j-th entry processed, the candidates in the     *)
(* order they were found, the consumed set before the entry, whether the   *)
(* operator was prompted, and the response.                                *)

MaxRefs == 2

MaxExt == 3

EPSILON_CENTS == 1

MONTHS_PT(mes) ==
    CASE mes = <<"j", "a", "n", "e", "i", "r", "o">> -> 1
      [] mes = <<"f", "e", "v", "e", "r", "e", "i", "r", "o">> -> 2
      [] mes = <<"m", "a", "r", "c", "o">> -> 3
      [] mes = <<"m", "a", "r", "ç", "o">> -> 3
      [] mes = <<"a", "b", "r", "i", "l">> -> 4
      [] mes = <<"m", "a", "i", "o">> -> 5
      [] mes = <<"j", "u", "n", "h", "o">> -> 6
      [] mes = <<"j", "u", "l", "h", "o">> -> 7
      [] mes = <<"a", "g", "o", "s", "t", "o">> -> 8
      [] mes = <<"s", "e", "t", "e", "m", "b", "r", "o">> -> 9
      [] mes = <<"o", "u", "t", "u", "b", "r", "o">> -> 10
      [] mes = <<"n", "o", "v", "e", "m", "b", "r", "o">> -> 11
      [] mes = <<"d", "e", "z", "e", "m", "b", "r", "o">> -> 12
      [] OTHER -> 0

RefExact ==
    [Mes |-> <<"3">>, Valor |-> <<"R", "$", " ", "1", "0", ",", "0", "4">>]

RefPadded ==
    [Mes |-> <<"0", "3">>, Valor |-> <<"1", "0", ",", "0", "5">>]

RefThousands ==
    [Mes |-> <<"3">>, Valor |-> <<"R", "$", " ", "1", ".", "2", "3", "4", ",", "5", "6">>]

RefRows == {RefExact, RefPadded, RefThousands}

ExtMarch ==
    [data |-> <<"0", "5", "/", "0", "3">>, valor |-> <<"-", "1", "0", ".", "0", "4">>,
     descricao_raw |-> <<"P", "I", "X">>,
     periodo |-> <<"m", "a", "r", "ç", "o", "/", "2", "0", "2", "5">>]

ExtMarchCent ==
    [data |-> <<"0", "6", "/", "0", "3">>, valor |-> <<"-", "1", "0", ".", "0", "5">>,
     descricao_raw |-> <<"T", "A", "R", "I", "F", "A">>,
     periodo |-> <<"m", "a", "r", "ç", "o", "/", "2", "0", "2", "5">>]

ExtMarchInAprilStatement ==
    [data |-> <<"3", "1", "/", "0", "3">>, valor |-> <<"-", "1", "0", ".", "0", "3">>,
     descricao_raw |-> <<"D", "E", "B", "I", "T", "O">>,
     periodo |-> <<"a", "b", "r", "i", "l", "/", "2", "0", "2", "5">>]

ExtNotNumeric ==
    [data |-> <<"0", "7", "/", "0", "3">>, valor |-> <<"x">>,
     descricao_raw |-> <<"P", "I", "X">>,
     periodo |-> <<"m", "a", "r", "ç", "o", "/", "2", "0", "2", "5">>]

ExtRows == {ExtMarch, ExtMarchCent, ExtMarchInAprilStatement, ExtNotNumeric}

(* What the operator may type at the prompt of line 88.                    *)
Responses ==
    {<<>>, <<"1">>, <<"2">>, <<"3">>, <<"0">>, <<" ", "2", " ">>, <<"x">>, <<"²">>}

(* Characters str.isdigit() accepts and int() rejects.                     *)
SuperscriptDigits == {"²"}

(* A missing value (NaN) in a text column.                                 *)
NaNText == <<"NaN">>

(* str.zfill(2)                                                            *)
Zfill2(t) ==
    IF t = NaNText THEN NaNText
    ELSE IF Len(t) >= 2 THEN t
    ELSE IF Len(t) = 0 THEN <<"0", "0">>
    ELSE IF t[1] \in {"+", "-"} THEN <<t[1], "0">>
    ELSE <<"0", t[1]>>

(* s.split("/")[1], NaN when there is no "/" (pandas' .str[1]).            *)
SplitSecond(t) ==
    IF Count(t, "/") = 0 THEN NaNText
    ELSE LET a    == CHOOSE i \in 1..Len(t) : t[i] = "/" /\ \A j \in 1..(i - 1) : t[j] # "/"
             rest == From(t, a + 1)
             b    == IF Count(rest, "/") = 0 THEN Len(rest) + 1
                     ELSE CHOOSE i \in 1..Len(rest) :
                              rest[i] = "/" /\ \A j \in 1..(i - 1) : rest[j] # "/"
         IN  SubSeq(rest, 1, b - 1)

(* Lines 114-117: a row of referencia_df.                                  *)
LoadRef(row, i) ==
    [idx      |-> i - 1,
     Mes      |-> IF IsNA(Strip(row.Mes)) THEN NaNText ELSE Zfill2(Strip(row.Mes)),
     ValorNum |-> parse_valor_ref(Strip(row.Valor))]

(* Lines 127-130: a row of extrato_df.                                     *)
LoadExt(row, i) ==
    [idx           |-> i - 1,
     data          |-> Strip(row.data),
     valor         |-> ParseFloat(Strip(row.valor)),
     descricao_raw |-> Strip(row.descricao_raw),
     periodo       |-> Strip(row.periodo),
     Mes           |-> Zfill2(SplitSecond(Strip(row.data)))]

HasValorNum(r) == r.ValorNum.ok

HasValor(r) == r.valor.ok

CheckInit ==
    /\ ref_csv \in SeqsUpTo(RefRows, MaxRefs)
    /\ ext_csv \in SeqsUpTo(ExtRows, MaxExt)
    /\ referencia_df = <<>> /\ extrato_df = <<>>
    /\ usados = {} /\ resultados = <<>> /\ ri = 1 /\ log = <<>>
    /\ chk_pc = "load"
    /\ IdleValor /\ IdleParse /\ IdleBlock /\ IdleRest

(* Lines 110-133.                                                          *)
ChkLoad ==
    /\ chk_pc = "load"
    /\ referencia_df' =
          SelectSeq([i \in 1..Len(ref_csv) |-> LoadRef(ref_csv[i], i)], HasValorNum)
    /\ extrato_df' =
          SelectSeq([i \in 1..Len(ext_csv) |-> LoadExt(ext_csv[i], i)], HasValor)
    /\ chk_pc' = "loop"
    /\ UNCHANGED <<ref_csv, ext_csv, usados, resultados, ri, log>>
    /\ UNCHANGED <<valorVars, parseVars, blockVars, restVars>>

(* |t.valor - valor| in hundredths (both have at most two decimals here).  *)
AbsDiffCents(a, b) ==
    LET d == Cents(a) - Cents(b) IN IF d < 0 THEN 0 - d ELSE d

(* Lines 139-141: same month, not used.                                    *)
Eligible(t, row) == t.Mes = row.Mes /\ t.Mes # NaNText /\ t.idx \notin usados

(* The comparison of line 142 in IEEE-754 doubles, for amounts that are    *)
(* whole hundredths. float(k/100) is k/100 rounded to 53 bits, to nearest, *)
(* ties to even: with MantShift(k) the s such that                         *)
(* 2^52 <= (k/100) * 2^s < 2^53, it is k/100 + RoundErr(k) / (100 * 2^s).  *)
Pow2(n) == 2 ^ n

BinExp(k) ==
    IF k >= 100
    THEN CHOOSE t \in 0..20 : 100 * Pow2(t) <= k /\ k < 100 * Pow2(t + 1)
    ELSE 0 - (CHOOSE t \in 1..7 : k * Pow2(t) >= 100 /\ k * Pow2(t - 1) < 100)

MantShift(k) == 52 - BinExp(k)

RECURSIVE Pow2Mod200(_)
Pow2Mod200(n) == IF n = 0 THEN 1 ELSE (2 * Pow2Mod200(n - 1)) % 200

RoundErr(k) ==
    IF k = 0 THEN 0
    ELSE LET n200 == ((k % 200) * Pow2Mod200(MantShift(k))) % 200
             rem  == n200 % 100
         IN  IF rem < 50 THEN 0 - rem
             ELSE IF rem > 50 THEN 100 - rem
             ELSE IF n200 >= 100 THEN 50 ELSE 0 - 50

(* abs(float(hi/100) - float((hi-1)/100)) <= float(0.01): the subtraction  *)
(* of two doubles within a factor of two of each other is exact, so the    *)
(* comparison is one of the three rounding errors, scaled to 2^-59.        *)
BoundaryWithin(hi) ==
    RoundErr(hi) * Pow2(59 - MantShift(hi))
        - (IF hi = 1 THEN 0 ELSE RoundErr(hi - 1) * Pow2(59 - MantShift(hi - 1)))
    <= RoundErr(EPSILON_CENTS)

Magnitude(v) == IF Cents(v) < 0 THEN 0 - Cents(v) ELSE Cents(v)

(* Line 142: abs(extrato_df["valor"] - valor) <= EPSILON.                  *)
WithinEpsilon(a, b) ==
    \/ AbsDiffCents(a, b) < EPSILON_CENTS
    \/ /\ AbsDiffCents(a, b) = EPSILON_CENTS
       /\ BoundaryWithin(Max(Magnitude(a), Magnitude(b)))

(* Lines 139-143: the positions of extrato_df the mask holds for.          *)
Mask(row) ==
    {k \in 1..Len(extrato_df) :
        /\ Eligible(extrato_df[k], row)
        /\ WithinEpsilon(extrato_df[k].valor, row.ValorNum)}

(* extrato_df[mask]: the rows of the mask in the frame's order, as pandas  *)
(* indexes.                                                                *)
RECURSIVE Ordered(_, _)
Ordered(ks, from) ==
    IF from > Len(extrato_df) THEN <<>>
    ELSE (IF from \in ks THEN <<extrato_df[from].idx>> ELSE <<>>)
         \o Ordered(ks, from + 1)

Candidatos(ks) == Ordered(ks, 1)

(* Line 74: escolher_candidato filters the used rows once more.            *)
Unused(cands) == SelectSeq(cands, LAMBDA ix : ix \notin usados)

ExtByIdx(ix) ==
    extrato_df[CHOOSE k \in 1..Len(extrato_df) : extrato_df[k].idx = ix]

EmptyCell == <<>>

FoundRow_NoHeaderOffset(row, ix) ==
    [ref           |-> row.idx,
     Encontrado    |-> "Sim",
     Linha_extrato |-> NatToDigits(ix + 1),
     valor_extrato |-> ExtByIdx(ix).valor,
     descricao_raw |-> ExtByIdx(ix).descricao_raw]

(* Lines 149-158.                                                          *)
FoundRow(row, ix) ==
    [ref           |-> row.idx,
     Encontrado    |-> "Sim",
     Linha_extrato |-> NatToDigits(ix + 2),
     valor_extrato |-> ExtByIdx(ix).valor,
     descricao_raw |-> ExtByIdx(ix).descricao_raw]

(* Lines 160-168; the empty valor_extrato is the value that is not ok.     *)
NotFoundRow(row) ==
    [ref           |-> row.idx,
     Encontrado    |-> "Não",
     Linha_extrato |-> EmptyCell,
     valor_extrato |-> None,
     descricao_raw |-> EmptyCell]

(* str.isdigit() and int() on the stripped response.                       *)
IsDigitStr(t) ==
    t # <<>> /\ \A i \in 1..Len(t) : t[i] \in Digits \cup SuperscriptDigits

IntRaises(t) == \E i \in 1..Len(t) : t[i] \notin Digits

ChkAtEntry == chk_pc = "loop" /\ ri <= Len(referencia_df)

LogEntry(cands, prompted, resp) ==
    [entry |-> ri, cands |-> cands, usados |-> usados,
     prompted |-> prompted, resp |-> resp]

Consume_ForgetsUsados(row, ix, cands, prompted, resp) ==
    /\ resultados' = Append(resultados, FoundRow(row, ix))
    /\ log' = Append(log, LogEntry(cands, prompted, resp))
    /\ ri' = ri + 1
    /\ UNCHANGED <<ref_csv, ext_csv, referencia_df, extrato_df, usados, chk_pc>>
    /\ UNCHANGED <<valorVars, parseVars, blockVars, restVars>>

(* Lines 147-158: the match is recorded as used and reported as found.     *)
Consume(row, ix, cands, prompted, resp) ==
    /\ usados' = usados \cup {ix}
    /\ resultados' = Append(resultados, FoundRow(row, ix))
    /\ log' = Append(log, LogEntry(cands, prompted, resp))
    /\ ri' = ri + 1
    /\ UNCHANGED <<ref_csv, ext_csv, referencia_df, extrato_df, chk_pc>>
    /\ UNCHANGED <<valorVars, parseVars, blockVars, restVars>>

Abstain_ConsumesFirst(row, cands, prompted, resp) ==
    /\ usados' = IF cands = <<>> THEN usados ELSE usados \cup {cands[1]}
    /\ resultados' = Append(resultados, NotFoundRow(row))
    /\ log' = Append(log, LogEntry(cands, prompted, resp))
    /\ ri' = ri + 1
    /\ UNCHANGED <<ref_csv, ext_csv, referencia_df, extrato_df, chk_pc>>
    /\ UNCHANGED <<valorVars, parseVars, blockVars, restVars>>

(* Lines 159-168: the entry is reported as not found.                      *)
Abstain(row, cands, prompted, resp) ==
    /\ resultados' = Append(resultados, NotFoundRow(row))
    /\ log' = Append(log, LogEntry(cands, prompted, resp))
    /\ ri' = ri + 1
    /\ UNCHANGED <<ref_csv, ext_csv, referencia_df, extrato_df, usados, chk_pc>>
    /\ UNCHANGED <<valorVars, parseVars, blockVars, restVars>>

(* Lines 135-145, 75-76, 159-168: no candidate.                            *)
ChkNoCandidate ==
    /\ ChkAtEntry
    /\ LET cands == Unused(Candidatos(Mask(referencia_df[ri])))
       IN  /\ Len(cands) = 0
           /\ Abstain(referencia_df[ri], cands, FALSE, <<>>)

(* Lines 135-158, 75-76: a single candidate is taken without a prompt.     *)
ChkSingleCandidate ==
    /\ ChkAtEntry
    /\ LET cands == Unused(Candidatos(Mask(referencia_df[ri])))
       IN  /\ Len(cands) = 1
           /\ Consume(referencia_df[ri], cands[1], cands, FALSE, <<>>)

ChkPromptSelect_OffByOne ==
    /\ ChkAtEntry
    /\ LET cands == Unused(Candidatos(Mask(referencia_df[ri]))) IN
       /\ Len(cands) > 1
       /\ \E resp \in Responses :
          LET escolha == Strip(resp)
          IN  /\ IsDigitStr(escolha)
              /\ ~IntRaises(escolha)
              /\ DigitsToNat(escolha) \in 1..Len(cands)
              /\ Consume(referencia_df[ri],
                         cands[(DigitsToNat(escolha) % Len(cands)) + 1],
                         cands, TRUE, resp)

(* Lines 78-92, 147-158: the operator names one of the options.            *)
ChkPromptSelect ==
    /\ ChkAtEntry
    /\ LET cands == Unused(Candidatos(Mask(referencia_df[ri]))) IN
       /\ Len(cands) > 1
       /\ \E resp \in Responses :
          LET escolha == Strip(resp)
          IN  /\ IsDigitStr(escolha)
              /\ ~IntRaises(escolha)
              /\ DigitsToNat(escolha) \in 1..Len(cands)
              /\ Consume(referencia_df[ri], cands[DigitsToNat(escolha)], cands, TRUE, resp)

(* Lines 78-93, 159-168: any other response leaves the entry unmatched.    *)
ChkPromptAbstain ==
    /\ ChkAtEntry
    /\ LET cands == Unused(Candidatos(Mask(referencia_df[ri]))) IN
       /\ Len(cands) > 1
       /\ \E resp \in Responses :
          LET escolha == Strip(resp)
          IN  /\ \/ ~IsDigitStr(escolha)
                 \/ ~IntRaises(escolha) /\ DigitsToNat(escolha) \notin 1..Len(cands)
              /\ Abstain(referencia_df[ri], cands, TRUE, resp)

(* Lines 89-90: isdigit() holds and int() raises ValueError; nothing       *)
(* catches it and the run ends without writing the output.                 *)
ChkPromptRaises ==
    /\ ChkAtEntry
    /\ LET cands == Unused(Candidatos(Mask(referencia_df[ri]))) IN
       /\ Len(cands) > 1
       /\ \E resp \in Responses :
          LET escolha == Strip(resp)
          IN  /\ IsDigitStr(escolha)
              /\ IntRaises(escolha)
              /\ log' = Append(log, LogEntry(cands, TRUE, resp))
    /\ chk_pc' = "raised"
    /\ UNCHANGED <<ref_csv, ext_csv, referencia_df, extrato_df, usados, resultados, ri>>
    /\ UNCHANGED <<valorVars, parseVars, blockVars, restVars>>

(* Lines 170-184: the loop is over and the output is written.              *)
ChkWrite ==
    /\ chk_pc = "loop" /\ ri > Len(referencia_df)
    /\ chk_pc' = "done"
    /\ UNCHANGED <<ref_csv, ext_csv, referencia_df, extrato_df, usados,
                   resultados, ri, log>>
    /\ UNCHANGED <<valorVars, parseVars, blockVars, restVars>>

CheckNext ==
    \/ ChkLoad
    \/ ChkNoCandidate
    \/ ChkSingleCandidate
    \/ ChkPromptSelect
    \/ ChkPromptAbstain
    \/ ChkPromptRaises
    \/ ChkWrite

SpecCheck == CheckInit /\ [][CheckNext]_vars

(* The same run over files in which amounts of both signs occur: reference *)
(* amounts written without a sign, with "-" and with "+", and transactions *)
(* that are payments and receipts of the same month.                       *)
RefNegative ==
    [Mes |-> <<"0", "3">>, Valor |-> <<"-", "1", "0", ",", "0", "4">>]

RefPositiveZero ==
    [Mes |-> <<"3">>, Valor |-> <<"+", "0", ",", "0", "0">>]

RefRowsSigned == {RefExact, RefNegative, RefPositiveZero}

ExtMarchReceived ==
    [data |-> <<"0", "7", "/", "0", "3">>, valor |-> <<"1", "0", ".", "0", "4">>,
     descricao_raw |-> <<"P", "I", "X", " ", "R", "E", "C", "E", "B", "I", "D", "O">>,
     periodo |-> <<"m", "a", "r", "ç", "o", "/", "2", "0", "2", "5">>]

ExtMarchReceivedTwoCents ==
    [data |-> <<"0", "8", "/", "0", "3">>, valor |-> <<"0", ".", "0", "2">>,
     descricao_raw |-> <<"J", "U", "R", "O", "S">>,
     periodo |-> <<"m", "a", "r", "ç", "o", "/", "2", "0", "2", "5">>]

ExtRowsSigned == {ExtMarch, ExtMarchReceived, ExtMarchReceivedTwoCents}

CheckSignedInit ==
    /\ ref_csv \in SeqsUpTo(RefRowsSigned, MaxRefs)
    /\ ext_csv \in SeqsUpTo(ExtRowsSigned, MaxExt)
    /\ referencia_df = <<>> /\ extrato_df = <<>>
    /\ usados = {} /\ resultados = <<>> /\ ri = 1 /\ log = <<>>
    /\ chk_pc = "load"
    /\ IdleValor /\ IdleParse /\ IdleBlock /\ IdleRest

SpecCheckSigned == CheckSignedInit /\ [][CheckNext]_vars


(* What the claims about the matcher speak of.                             *)

RefOf(j) == referencia_df[log[j].entry]

(* The consumed set right after the j-th entry was processed.              *)
UsadosAfter(j) == IF j < Len(log) THEN log[j + 1].usados ELSE usados

IsFound(j) == j <= Len(resultados) /\ resultados[j].Encontrado = "Sim"

IsNotFound(j) == j <= Len(resultados) /\ resultados[j].Encontrado = "Não"

(* The 0-based row of movimentacoes.csv a found result points at.          *)
MatchedIdx(j) ==
    CHOOSE ix \in 0..(Len(ext_csv) - 1) : NatToDigits(ix + 2) = resultados[j].Linha_extrato

(* The month number of a statement period such as "março/2025", as two     *)
(* digits.                                                                 *)
PeriodMonth(periodo) ==
    LET slash == CHOOSE i \in 1..Len(periodo) : periodo[i] = "/"
    IN  Zfill2(NatToDigits(MONTHS_PT(SubSeq(periodo, 1, slash - 1))))

(* The ordinal a response names: its value when, trimmed, it is a decimal  *)
(* numeral, and 0 (no ordinal) otherwise.                                  *)
OrdinalOf(resp) ==
    LET t == Strip(resp)
    IN  IF t # <<>> /\ \A i \in 1..Len(t) : t[i] \in Digits THEN DigitsToNat(t) ELSE 0

(* C1: once a transaction appears in a found result it appears in no later *)
(* result of the run: two found results never name the same row of the     *)
(* extract, and a found result never names a row that was already consumed *)
(* when its entry was processed.                                           *)
C1_TransactionMatchedAtMostOnce ==
    /\ \A j, k \in 1..Len(resultados) :
          (j < k /\ IsFound(j) /\ IsFound(k)) =>
              resultados[j].Linha_extrato # resultados[k].Linha_extrato
    /\ \A j \in 1..Len(resultados) :
          IsFound(j) =>
              /\ \E ix \in 0..(Len(ext_csv) - 1) :
                    NatToDigits(ix + 2) = resultados[j].Linha_extrato
              /\ MatchedIdx(j) \notin log[j].usados
              /\ MatchedIdx(j) \in UsadosAfter(j)
    /\ Cardinality(usados) = Cardinality({j \in 1..Len(resultados) : IsFound(j)})

(* An earlier entry took the only transaction a later entry could match,   *)
(* and the later entry ended not found.                                    *)
C1_Witness ==
    \E j, k \in 1..Len(resultados) :
        /\ j < k /\ IsFound(j) /\ IsNotFound(k)
        /\ log[k].cands = <<>>
        /\ ExtByIdx(MatchedIdx(j)).Mes = RefOf(k).Mes
        /\ AbsDiffCents(ExtByIdx(MatchedIdx(j)).valor, RefOf(k).ValorNum) = 0

(* C7 as stated: for each entry, a transaction is a candidate exactly when *)
(* the month of its period equals the entry's month, it is not consumed    *)
(* and its amount differs from the expected amount by at most 0.01; every  *)
(* found result pairs the entry with such a transaction.                   *)
C7_CandidateIffPeriodMonthAndTolerance ==
    \A j \in 1..Len(log) :
        /\ \A k \in 1..Len(extrato_df) :
              LET t == extrato_df[k] IN
              (\E c \in 1..Len(log[j].cands) : log[j].cands[c] = t.idx) <=>
                  /\ PeriodMonth(t.periodo) = RefOf(j).Mes
                  /\ t.idx \notin log[j].usados
                  /\ AbsDiffCents(t.valor, RefOf(j).ValorNum) <= EPSILON_CENTS
        /\ IsFound(j) =>
              /\ PeriodMonth(ExtByIdx(MatchedIdx(j)).periodo) = RefOf(j).Mes
              /\ AbsDiffCents(ExtByIdx(MatchedIdx(j)).valor, RefOf(j).ValorNum)
                     <= EPSILON_CENTS

(* C7, what does hold: the month compared is the month of the             *)
(* transaction's date (the second component of data, zero-padded), not of  *)
(* its period. Every candidate has that month equal to the entry's month,  *)
(* is not consumed and differs from the expected amount by at most 0.01;   *)
(* every such transaction that differs by less than 0.01 is a candidate    *)
(* (at a difference of exactly 0.01 the rounding of the doubles decides);  *)
(* every found result pairs the entry with one of its candidates.          *)
C7_CandidateIffDateMonthAndTolerance ==
    \A j \in 1..Len(log) :
        /\ \A k \in 1..Len(extrato_df) :
              LET t    == extrato_df[k]
                  cand == \E c \in 1..Len(log[j].cands) : log[j].cands[c] = t.idx
                  base == /\ Zfill2(SplitSecond(t.data)) = RefOf(j).Mes
                          /\ t.idx \notin log[j].usados
              IN  /\ cand => (base /\ AbsDiffCents(t.valor, RefOf(j).ValorNum) <= 1)
                  /\ (base /\ AbsDiffCents(t.valor, RefOf(j).ValorNum) < 1) => cand
        /\ IsFound(j) =>
              /\ \E c \in 1..Len(log[j].cands) : log[j].cands[c] = MatchedIdx(j)
              /\ Zfill2(SplitSecond(ExtByIdx(MatchedIdx(j)).data)) = RefOf(j).Mes
              /\ AbsDiffCents(ExtByIdx(MatchedIdx(j)).valor, RefOf(j).ValorNum) <= 1

(* An entry found its match among several candidates, one of them at a     *)
(* distance of exactly 0.01 and one from another statement period.         *)
C7_Witness ==
    \E j \in 1..Len(log) :
        /\ IsFound(j)
        /\ Len(log[j].cands) >= 2
        /\ \E c \in 1..Len(log[j].cands) :
              AbsDiffCents(ExtByIdx(log[j].cands[c]).valor, RefOf(j).ValorNum) = 1
        /\ \E c \in 1..Len(log[j].cands) :
              PeriodMonth(ExtByIdx(log[j].cands[c]).periodo) # RefOf(j).Mes

(* C8: the operator is shown the candidates in extraction order (rising    *)
(* row index), numbered 1..n; a response naming an ordinal k in 1..n       *)
(* selects the k-th of them: it is consumed and the entry is reported      *)
(* found with that transaction's row, amount and description.              *)
C8_OrdinalSelectsKthCandidate ==
    \A j \in 1..Len(log) :
        log[j].prompted =>
            LET cs == log[j].cands
                k  == OrdinalOf(log[j].resp)
            IN  /\ Len(cs) > 1
                /\ \A a, b \in 1..Len(cs) : a < b => cs[a] < cs[b]
                /\ k \in 1..Len(cs) =>
                      /\ IsFound(j)
                      /\ resultados[j].Linha_extrato = NatToDigits(cs[k] + 2)
                      /\ resultados[j].valor_extrato =
                             ParseFloat(Strip(ext_csv[cs[k] + 1].valor))
                      /\ resultados[j].descricao_raw =
                             Strip(ext_csv[cs[k] + 1].descricao_raw)
                      /\ cs[k] \in UsadosAfter(j)
                      /\ UsadosAfter(j) = log[j].usados \cup {cs[k]}

C8_Witness ==
    \E j \in 1..Len(log) :
        /\ log[j].prompted /\ IsFound(j)
        /\ Len(log[j].cands) = 3
        /\ log[j].resp = <<" ", "2", " ">>
        /\ MatchedIdx(j) = log[j].cands[2]

(* C9: an entry that ends not found (no candidate, an empty response, or a *)
(* response that is no ordinal in 1..n, such as 0, n+1 or text) leaves the *)
(* consumed set as it was, so each of its candidates is still available,   *)
(* and its result row has Encontrado = Não and empty Linha_extrato,        *)
(* valor_extrato and descricao_raw; those three causes do end not found.   *)
C9_NotFoundHasNoSideEffect ==
    \A j \in 1..Len(resultados) :
        /\ IsNotFound(j) =>
              /\ UsadosAfter(j) = log[j].usados
              /\ \A c \in 1..Len(log[j].cands) : log[j].cands[c] \notin UsadosAfter(j)
              /\ resultados[j].Linha_extrato = EmptyCell
              /\ ~resultados[j].valor_extrato.ok
              /\ resultados[j].descricao_raw = EmptyCell
        /\ log[j].cands = <<>> => IsNotFound(j)
        /\ (/\ log[j].prompted
            /\ \/ log[j].resp \in {<<>>, <<"x">>, <<"0">>}
               \/ OrdinalOf(log[j].resp) > Len(log[j].cands)) => IsNotFound(j)

(* An abstention at the prompt whose candidate is then taken by the next   *)
(* entry.                                                                  *)
C9_Witness ==
    \E j, k \in 1..Len(resultados) :
        /\ j < k
        /\ IsNotFound(j) /\ log[j].prompted /\ log[j].resp = <<"0">>
        /\ IsFound(k)
        /\ \E c \in 1..Len(log[j].cands) : log[j].cands[c] = MatchedIdx(k)

(* C10: an entry with exactly one candidate is resolved without a prompt:  *)
(* the candidate is consumed and the result is found, Linha_extrato being  *)
(* the transaction's 0-based row in movimentacoes.csv plus 2; the operator *)
(* is prompted exactly when there is more than one candidate.              *)
C10_SingleCandidateAutoSelected ==
    \A j \in 1..Len(log) :
        /\ log[j].prompted <=> Len(log[j].cands) > 1
        /\ Len(log[j].cands) = 1 =>
              LET ix == log[j].cands[1] IN
              /\ IsFound(j)
              /\ resultados[j].Linha_extrato = NatToDigits(ix + 2)
              /\ resultados[j].valor_extrato = ParseFloat(Strip(ext_csv[ix + 1].valor))
              /\ resultados[j].descricao_raw = Strip(ext_csv[ix + 1].descricao_raw)
              /\ UsadosAfter(j) = log[j].usados \cup {ix}

(* The single candidate is the third row of the file, after a row whose    *)
(* amount is not a number: Linha_extrato is 4.                             *)
C10_Witness ==
    \E j \in 1..Len(log) :
        /\ Len(log[j].cands) = 1 /\ ~log[j].prompted /\ IsFound(j)
        /\ Len(ext_csv) >= 2 /\ ext_csv[2] = ExtNotNumeric
        /\ resultados[j].Linha_extrato = <<"4">>

(* The result rows are one per entry of referencia_df processed so far, in  *)
(* the frame's (the file's) order.                                         *)
OneRowPerEntryInOrder ==
    /\ Len(resultados) = (IF chk_pc = "loop" THEN ri - 1 ELSE Len(resultados))
    /\ \A j \in 1..Len(resultados) : resultados[j].ref = referencia_df[j].idx
    /\ \A j, k \in 1..Len(resultados) : j < k => resultados[j].ref < resultados[k].ref
    /\ chk_pc = "done" => Len(resultados) = Len(referencia_df)

(* C11: the reconciliation run never aborts: whatever the entries, the     *)
(* transactions and the responses at the prompts, the loop is never left   *)
(* by an exception, and when the run is over there is exactly one result   *)
(* row per reference entry with a parsable amount, in file order.          *)
C11_RunNeverAborts ==
    /\ chk_pc # "raised"
    /\ OneRowPerEntryInOrder

(* C11, what does hold: a run that is not ended by an exception produces   *)
(* one row per entry with a parsable amount, in file order; an exception   *)
(* leaves the loop only at a prompt, on a response str.isdigit() accepts   *)
(* and int() rejects.                                                      *)
C11_RowsPerEntryUnlessRaised ==
    /\ OneRowPerEntryInOrder
    /\ chk_pc = "raised" =>
          /\ Len(log) = Len(resultados) + 1
          /\ log[Len(log)].prompted
          /\ IsDigitStr(Strip(log[Len(log)].resp))
          /\ IntRaises(Strip(log[Len(log)].resp))
          /\ Len(resultados) < Len(referencia_df)

-----------------------------------------------------------------------------
(* IEEE-754 double addition for amounts that are near whole hundredths.    *)
(* A double x is held as [K, E] with x = (K + E / 2^59) / 100: K the       *)
(* hundredths it stands for and E its distance from them. Sums and         *)
(* differences are exact in this form and are then rounded to 53 bits, to  *)
(* nearest, ties to even, as the hardware does.                            *)

(* F applied to the value of e, e being evaluated once.                    *)
Once(F(_), e) == CHOOSE r \in {F(v) : v \in {e}} : TRUE

(* float(text) of a text with two decimals worth k hundredths.             *)
DblOfCentsValue(k) ==
    LET a == IF k < 0 THEN 0 - k ELSE k
        e == IF a = 0 THEN 0 ELSE RoundErr(a) * Pow2(59 - MantShift(a))
    IN  [K |-> k, E |-> IF k < 0 THEN 0 - e ELSE e]

DblOfCents(k) == Once(DblOfCentsValue, k)

(* The q in 0..2^n-1 with 25 * q = A modulo 2^n, bit by bit.               *)
RECURSIVE SolveDiv25(_, _, _, _)
SolveDiv25(A, n, i, q) ==
    IF i = n THEN q
    ELSE SolveDiv25(A, n, i + 1,
                    IF ((A - 25 * q) \div Pow2(i)) % 2 = 1 THEN q + Pow2(i) ELSE q)

(* The binary exponent of (K + E / 2^59) / 100, K > 0.                     *)
DblBinExp(K, E) ==
    LET e == BinExp(K)
        atPower == IF e >= 0 THEN K = 100 * Pow2(e) ELSE K * Pow2(0 - e) = 100
    IN  IF E < 0 /\ atPower THEN e - 1 ELSE e

(* Rounding of an exact positive value: the bits below the 53rd are those  *)
(* of x * 2^59 = (K * 2^59 + E) / 100 below position t = 7 + exponent.     *)
DblRoundPos(K, E) ==
    LET t == 7 + DblBinExp(K, E) IN
    IF t <= 0 THEN [K |-> K, E |-> E]
    ELSE LET r2   == SolveDiv25((E \div 4) % Pow2(t + 1), t + 1, 0, 0)
             r    == r2 % Pow2(t)
             odd  == r2 >= Pow2(t)
             half == Pow2(t - 1)
         IN  IF r < half \/ (r = half /\ ~odd)
             THEN [K |-> K, E |-> E - 100 * r]
             ELSE [K |-> K, E |-> E + 100 * (Pow2(t) - r)]

DblNeg(x) == [K |-> 0 - x.K, E |-> 0 - x.E]

DblRound(K, E) ==
    IF K = 0 THEN [K |-> 0, E |-> E]
    ELSE IF K < 0 THEN DblNeg(DblRoundPos(0 - K, 0 - E))
    ELSE DblRoundPos(K, E)

DblAdd(x, y) ==
    Once(LAMBDA a : Once(LAMBDA b : DblRound(a.K + b.K, a.E + b.E), y), x)

DblSub(x, y) ==
    Once(LAMBDA a : Once(LAMBDA b : DblRound(a.K - b.K, a.E - b.E), y), x)

DblAbs(x) ==
    Once(LAMBDA a : IF a.K < 0 \/ (a.K = 0 /\ a.E < 0) THEN DblNeg(a) ELSE a, x)

DblGreater(x, y) == x.K > y.K \/ (x.K = y.K /\ x.E > y.E)

-----------------------------------------------------------------------------
(* SpecSaldos: extract_saldos. sal_words holds the words of the document,  *)
(* page after page, a PageBreak item standing between two pages; sal_i is  *)
(* the word the loops are about to read.                                   *)

MaxChunks == 3

LabelPrefix ==
    <<"S", "a", "l", "d", "o", "d", "e", "C", "o", "n", "t", "a",
      "C", "o", "r", "r", "e", "n", "t", "e", "e", "m">>

WordLabelFeb == LabelPrefix \o <<"2", "8", "/", "0", "2">>

WordLabelSpaced ==
    <<"S", "a", "l", "d", "o", " ", "d", "e", " ", "C", "o", "n", "t", "a", " ",
      "C", "o", "r", "r", "e", "n", "t", "e", " ", "e", "m", " ",
      "3", "1", "/", "0", "3">>

WordLabelLong == LabelPrefix \o <<"2", "8", "/", "0", "2", "x">>

WordThousand == <<"1", ".", "0", "0", "0", ",", "0", "0">>

WordEightHundred == <<"8", "0", "0", ",", "0", "0">>

WordCurrency == <<"R", "$">>

WordTwoCommas == <<"1", ",", "0", "0", "0", ",", "0", "0">>

(* The pieces the words of a document are put together from.               *)
WordChunks ==
    {<<WordLabelFeb, WordThousand>>, <<WordLabelSpaced, WordEightHundred>>,
     <<WordLabelFeb, WordCurrency>>, <<WordLabelFeb, WordTwoCommas>>,
     <<WordLabelLong, WordThousand>>, <<WordLabelFeb>>, <<WordEightHundred>>,
     <<PageBreak>>}

RECURSIVE Flatten(_)
Flatten(ss) == IF ss = <<>> THEN <<>> ELSE Head(ss) \o Flatten(Tail(ss))

WordLists == {Flatten(cs) : cs \in SeqsUpTo(WordChunks, MaxChunks)}

(* LABEL_RE.fullmatch(label): the prefix, two digits, "/", two digits.     *)
LabelMatch(label) ==
    /\ Len(label) = Len(LabelPrefix) + 5
    /\ StartsWith(label, LabelPrefix)
    /\ DateMatch(From(label, Len(LabelPrefix) + 1))

(* m.group(1)                                                              *)
LabelDate(label) == From(label, Len(LabelPrefix) + 1)

(* NUM_RE.fullmatch(nxt): one or more of the digits, "." and ",".          *)
NumMatch(nxt) ==
    nxt # <<>> /\ \A i \in 1..Len(nxt) : nxt[i] \in Digits \cup {".", ","}

(* Line 69: range(len(words) - 1) leaves out the last word of the page.    *)
LastOfPage(ws, i) == i = Len(ws) \/ ws[i + 1] = PageBreak

SaldosInit ==
    /\ sal_words \in WordLists
    /\ sal_i = 1 /\ datas = <<>> /\ saldos = <<>>
    /\ sal_pc = "scan"
    /\ IdleValor /\ IdleParse /\ IdleBlock /\ IdleCheck /\ IdleBatch /\ IdleTail

SalScanning == sal_pc = "scan" /\ Len(saldos) < 2 /\ sal_i <= Len(sal_words)

SalLabel(i) == Replace(sal_words[i], <<" ">>, <<>>)

(* Line 67: the next page.                                                 *)
SalNextPage ==
    /\ SalScanning
    /\ sal_words[sal_i] = PageBreak
    /\ sal_i' = sal_i + 1
    /\ UNCHANGED <<sal_words, datas, saldos, sal_pc>>
    /\ UNCHANGED <<coreVars, batchVars, tailVars>>

(* Lines 69-73: not a label, or the last word of its page, or a label      *)
(* followed by a word NUM_RE does not match.                               *)
SalSkip ==
    /\ SalScanning
    /\ sal_words[sal_i] # PageBreak
    /\ IF LastOfPage(sal_words, sal_i) THEN TRUE
       ELSE ~LabelMatch(SalLabel(sal_i)) \/ ~NumMatch(sal_words[sal_i + 1])
    /\ sal_i' = sal_i + 1
    /\ UNCHANGED <<sal_words, datas, saldos, sal_pc>>
    /\ UNCHANGED <<coreVars, batchVars, tailVars>>

(* Lines 72-76: a label followed by a word NUM_RE matches.                 *)
SalAppend ==
    /\ SalScanning
    /\ sal_words[sal_i] # PageBreak
    /\ ~LastOfPage(sal_words, sal_i)
    /\ LabelMatch(SalLabel(sal_i))
    /\ NumMatch(sal_words[sal_i + 1])
    /\ br_number_to_float(sal_words[sal_i + 1]).ok
    /\ datas' = Append(datas, LabelDate(SalLabel(sal_i)))
    /\ saldos' = Append(saldos, br_number_to_float(sal_words[sal_i + 1]))
    /\ sal_i' = sal_i + 1
    /\ UNCHANGED <<sal_words, sal_pc>>
    /\ UNCHANGED <<coreVars, batchVars, tailVars>>

(* Lines 75-76, 34: datas has the date appended, then float() raises       *)
(* ValueError on what is left of the word; extract_saldos does not catch   *)
(* it.                                                                     *)
SalFloatRaises ==
    /\ SalScanning
    /\ sal_words[sal_i] # PageBreak
    /\ ~LastOfPage(sal_words, sal_i)
    /\ LabelMatch(SalLabel(sal_i))
    /\ NumMatch(sal_words[sal_i + 1])
    /\ ~br_number_to_float(sal_words[sal_i + 1]).ok
    /\ datas' = Append(datas, LabelDate(SalLabel(sal_i)))
    /\ sal_pc' = "raised_float"
    /\ UNCHANGED <<sal_words, sal_i, saldos>>
    /\ UNCHANGED <<coreVars, batchVars, tailVars>>

(* Lines 77-80, 83: two balances were read.                                *)
SalReturn ==
    /\ sal_pc = "scan"
    /\ Len(saldos) >= 2
    /\ sal_pc' = "returned"
    /\ UNCHANGED <<sal_words, sal_i, datas, saldos>>
    /\ UNCHANGED <<coreVars, batchVars, tailVars>>

(* Lines 81-82: the pages are over with fewer than two balances.           *)
SalTooFew ==
    /\ sal_pc = "scan"
    /\ Len(saldos) < 2
    /\ sal_i > Len(sal_words)
    /\ sal_pc' = "raised_few"
    /\ UNCHANGED <<sal_words, sal_i, datas, saldos>>
    /\ UNCHANGED <<coreVars, batchVars, tailVars>>

SaldosNext ==
    \/ SalNextPage
    \/ SalSkip
    \/ SalAppend
    \/ SalFloatRaises
    \/ SalReturn
    \/ SalTooFew

SpecSaldos == SaldosInit /\ [][SaldosNext]_vars

(* extract_saldos as a function of the words: what it returns, or that it  *)
(* raised.                                                                 *)
RECURSIVE SaldosFold(_, _, _, _)
SaldosFold(ws, i, ds, ss) ==
    IF Len(ss) >= 2
    THEN [pc |-> "returned", datas |-> ds, saldos |-> ss]
    ELSE IF i > Len(ws)
    THEN [pc |-> "raised_few", datas |-> ds, saldos |-> ss]
    ELSE IF (IF ws[i] = PageBreak \/ LastOfPage(ws, i) THEN TRUE
             ELSE \/ ~LabelMatch(Replace(ws[i], <<" ">>, <<>>))
                  \/ ~NumMatch(ws[i + 1]))
    THEN SaldosFold(ws, i + 1, ds, ss)
    ELSE LET dt == LabelDate(Replace(ws[i], <<" ">>, <<>>))
             v  == br_number_to_float(ws[i + 1])
         IN  IF v.ok THEN SaldosFold(ws, i + 1, Append(ds, dt), Append(ss, v))
             ELSE [pc |-> "raised_float", datas |-> Append(ds, dt), saldos |-> ss]

extract_saldos(ws) == SaldosFold(ws, 1, <<>>, <<>>)

SaldosStepsAgreeWithFold ==
    sal_pc \in {"returned", "raised_few", "raised_float"} =>
        extract_saldos(sal_words) = [pc |-> sal_pc, datas |-> datas, saldos |-> saldos]

(* What the claim about the balance anchors speaks of: a word that, with   *)
(* its spaces removed, is the label with a dd/dd date, immediately         *)
(* followed on its page by a numeric word (digits with "." and ","         *)
(* separators that read as a number).                                      *)
IsNumericWord(w) == NumMatch(w) /\ br_number_to_float(w).ok

IsAnchor(ws, i) ==
    /\ ws[i] # PageBreak
    /\ ~LastOfPage(ws, i)
    /\ LabelMatch(Replace(ws[i], <<" ">>, <<>>))
    /\ IsNumericWord(ws[i + 1])

Anchors(ws) == SelectSeq([i \in 1..Len(ws) |-> i], LAMBDA i : IsAnchor(ws, i))

AnchorDate(ws, i) == LabelDate(Replace(ws[i], <<" ">>, <<>>))

AnchorValue(ws, i) == br_number_to_float(ws[i + 1])

SaldosOver == sal_pc \in {"returned", "raised_few", "raised_float"}

ReturnsFirstTwoAnchors ==
    sal_pc = "returned" =>
        LET an == Anchors(sal_words) IN
        /\ Len(an) >= 2
        /\ datas = <<AnchorDate(sal_words, an[1]), AnchorDate(sal_words, an[2])>>
        /\ saldos = <<AnchorValue(sal_words, an[1]), AnchorValue(sal_words, an[2])>>
        /\ sal_i = an[2] + 1

(* C18: extract_saldos returns the first two (date, balance) anchors in    *)
(* document order; a label followed by a word that is not numeric is       *)
(* ignored; the scan stops at the second anchor; it fails if and only if   *)
(* the document holds fewer than two anchors.                              *)
C18_FirstTwoAnchorsOrFewerThanTwo ==
    /\ ReturnsFirstTwoAnchors
    /\ SaldosOver => (sal_pc = "returned" <=> Len(Anchors(sal_words)) >= 2)

(* C18, what does hold: the same, except when a label met before the       *)
(* second anchor is followed by a word of digits, "." and "," that float() *)
(* rejects once "." is removed and "," replaced: the ValueError of float() *)
(* leaves extract_saldos there.                                            *)
C18_FirstTwoAnchorsUnlessFloatRaises ==
    /\ ReturnsFirstTwoAnchors
    /\ sal_pc = "raised_few" =>
          /\ Len(Anchors(sal_words)) < 2
          /\ sal_i = Len(sal_words) + 1
    /\ sal_pc = "raised_float" =>
          /\ LabelMatch(SalLabel(sal_i))
          /\ NumMatch(sal_words[sal_i + 1])
          /\ ~IsNumericWord(sal_words[sal_i + 1])
          /\ Len(saldos) < 2
    /\ (SaldosOver /\ Len(Anchors(sal_words)) < 2) => sal_pc # "returned"

-----------------------------------------------------------------------------
(* SpecBatch: extract_all_movements over the files of input/, calling      *)
(* extract_movements_from_pdf on each. A file is its name, the lines of    *)
(* its pages (what page.extract_text() gives, a PageBreak item between two *)
(* pages) and the words of its pages (page.extract_words()). bat_log[j] is *)
(* what the j-th call of extract_movements_from_pdf did.                   *)

MaxFiles == 3

THRESHOLD_CENTS == 5

(* \s of RESUMO_RE, on the model's alphabet.                               *)
ReSpace == Whitespace \cup {"\n"}

(* [a-zç] under re.IGNORECASE, on the model's alphabet.                    *)
ResumoLetters == LowerAZ \cup UpperAZ \cup {"ç", "Ç"}

RECURSIVE SpaceRun(_, _)
SpaceRun(s, p) ==
    IF p <= Len(s) /\ s[p] \in ReSpace THEN 1 + SpaceRun(s, p + 1) ELSE 0

RECURSIVE ResumoLetterRun(_, _)
ResumoLetterRun(s, p) ==
    IF p <= Len(s) /\ s[p] \in ResumoLetters THEN 1 + ResumoLetterRun(s, p + 1) ELSE 0

(* RESUMO_RE matched at position i of s: where group(1) starts and ends,   *)
(* or <<0, 0>>. The greedy runs never need to give characters back: "-"    *)
(* and "/" lie in neither class.                                           *)
ResumoMatchAt(s, i) ==
    LET kw == <<"r", "e", "s", "u", "m", "o">>
        j1 == i + 6
        j2 == j1 + SpaceRun(s, j1)
        j3 == j2 + 1 + SpaceRun(s, j2 + 1)
        j4 == j3 + ResumoLetterRun(s, j3)
    IN  IF /\ i + 5 <= Len(s)
           /\ Lower(SubSeq(s, i, i + 5)) = kw
           /\ j2 <= Len(s) /\ s[j2] = "-"
           /\ j4 > j3
           /\ j4 + 4 <= Len(s)
           /\ s[j4] = "/"
           /\ \A k \in (j4 + 1)..(j4 + 4) : s[k] \in Digits
        THEN <<j3, j4 + 4>>
        ELSE <<0, 0>>

(* RESUMO_RE.search(text).group(1), or the empty text when nothing matches *)
RESUMO_RE_search(s) ==
    IF \E i \in 1..Len(s) : ResumoMatchAt(s, i) # <<0, 0>>
    THEN LET i == CHOOSE i \in 1..Len(s) :
                      /\ ResumoMatchAt(s, i) # <<0, 0>>
                      /\ \A k \in 1..(i - 1) : ResumoMatchAt(s, k) = <<0, 0>>
         IN  SubSeq(s, ResumoMatchAt(s, i)[1], ResumoMatchAt(s, i)[2])
    ELSE <<>>

(* The text of the page that starts at item p of d: its lines joined by    *)
(* line feeds.                                                             *)
RECURSIVE PageText(_, _)
PageText(d, p) ==
    IF p > Len(d) \/ d[p] = PageBreak THEN <<>>
    ELSE d[p] \o (IF p + 1 > Len(d) \/ d[p + 1] = PageBreak THEN <<>> ELSE <<"\n">>)
         \o PageText(d, p + 1)

(* extract_periodo: the first page RESUMO_RE matches on; the empty text    *)
(* stands for the ValueError of line 156.                                  *)
RECURSIVE PeriodoFrom(_, _)
PeriodoFrom(d, p) ==
    IF p > Len(d) + 1 THEN <<>>
    ELSE LET g == RESUMO_RE_search(PageText(d, p))
         IN  IF g # <<>> THEN Lower(Strip(g))
             ELSE IF p > Len(d) THEN <<>>
             ELSE PeriodoFrom(d, NextPageStart(d, p))

extract_periodo(d) == PeriodoFrom(d, 1)

(* extract_transacoes as a function of the document.                       *)
extract_transacoes(d) == parse_mov(ScanFold(d, 1, FALSE, <<>>))

LineResumoMarco ==
    <<"R", "e", "s", "u", "m", "o", " ", "-", " ", "M", "a", "r", "ç", "o", "/",
      "2", "0", "2", "5">>

LineResumoAbril ==
    <<"R", "E", "S", "U", "M", "O", "-", "a", "b", "r", "i", "l", "/", "2", "0", "2", "5">>

LineMov150 ==
    <<"0", "5", "/", "0", "3", "P", "I", "X", " ", "1", "5", "0", ",", "0", "0", "-">>

LineMov005 ==
    <<" ", "0", "6", "/", "0", "3", "T", "A", "R", "I", "F", "A", " ", "0", ",", "0", "5", "-">>

WordsOf(ini, fim) == <<WordLabelFeb, ini, WordLabelSpaced, fim>>

WordOneOhFive == <<"1", ",", "0", "5">>

WordOne == <<"1", ",", "0", "0">>

WordTenCents == <<"0", ",", "1", "0">>

WordFiveCents == <<"0", ",", "0", "5">>

(* Opening 1000.00, closing 800.00, one movement of -150.00.               *)
PdfScenario ==
    [doc   |-> <<LineResumoMarco, BlkHeaderLine, LineMov150>>,
     words |-> WordsOf(WordThousand, WordEightHundred)]

(* Opening 1.05, closing 1.00, one movement of -0.05.                      *)
PdfBalanced ==
    [doc   |-> <<LineResumoAbril, PageBreak, BlkHeaderLine, LineMov005>>,
     words |-> WordsOf(WordOneOhFive, WordOne)]

(* Opening 1.05, closing 1.00, no movement.                                *)
PdfFiveCentsOff ==
    [doc   |-> <<LineResumoMarco, BlkHeaderLine>>,
     words |-> WordsOf(WordOneOhFive, WordOne)]

(* Opening 0.10, closing 0.05, no movement.                                *)
PdfFiveCentsOffLow ==
    [doc   |-> <<LineResumoAbril, BlkHeaderLine>>,
     words |-> WordsOf(WordTenCents, WordFiveCents)]

PdfNoPeriodo ==
    [doc   |-> <<BlkHeaderLine, LineMov150>>,
     words |-> WordsOf(WordThousand, WordEightHundred)]

PdfOneSaldo ==
    [doc   |-> <<LineResumoMarco, BlkHeaderLine, LineMov150>>,
     words |-> <<WordLabelFeb, WordThousand, WordCurrency>>]

PdfCorpus ==
    {PdfScenario, PdfBalanced, PdfFiveCentsOff, PdfFiveCentsOffLow, PdfNoPeriodo,
     PdfOneSaldo}

(* The names a file of input/ may have.                                    *)
FileNames ==
    << <<"b", ".", "p", "d", "f">>, <<"a", ".", "p", "d", "f">>,
       <<"n", ".", "t", "x", "t">>, <<"B", ".", "p", "d", "f">>,
       <<"a", "1", ".", "p", "d", "f">> >>

(* ord(c) for the characters of the file names.                            *)
Ord(c) ==
    CASE c = "." -> 46 [] c = "1" -> 49 [] c = "B" -> 66 [] c = "a" -> 97
      [] c = "b" -> 98 [] c = "d" -> 100 [] c = "f" -> 102 [] c = "n" -> 110
      [] c = "p" -> 112 [] c = "t" -> 116 [] c = "x" -> 120

(* a < b for two names, as str compares them.                              *)
RECURSIVE StrLess(_, _)
StrLess(a, b) ==
    IF b = <<>> THEN FALSE
    ELSE IF a = <<>> THEN TRUE
    ELSE IF Ord(Head(a)) # Ord(Head(b)) THEN Ord(Head(a)) < Ord(Head(b))
    ELSE StrLess(Tail(a), Tail(b))

(* sorted(names)                                                           *)
RECURSIVE SortNames(_)
SortNames(S) ==
    IF S = {} THEN <<>>
    ELSE LET m == CHOOSE x \in S : \A y \in S \ {x} : StrLess(x, y)
         IN  <<m>> \o SortNames(S \ {m})

(* sorted(input_dir.glob("*.pdf")), line 186.                              *)
GlobPdf(dir) ==
    SortNames({n \in DOMAIN dir : EndsWith(n, <<".", "p", "d", "f">>)})

BatchInit ==
    /\ input_dir \in UNION {[N -> PdfCorpus] :
                            N \in {M \in SUBSET {FileNames[k] : k \in 1..Len(FileNames)} :
                                       Cardinality(M) <= MaxFiles}}
    /\ pdfs = <<>> /\ bat_i = 1 /\ all_rows = <<>> /\ bat_log = <<>>
    /\ bat_pc = "start"
    /\ IdleValor /\ IdleParse /\ IdleBlock /\ IdleCheck /\ IdleSaldos /\ IdleTail

(* Lines 185-186.                                                          *)
BatList ==
    /\ bat_pc = "start"
    /\ pdfs' = GlobPdf(input_dir)
    /\ bat_pc' = "loop"
    /\ UNCHANGED <<input_dir, bat_i, all_rows, bat_log>>
    /\ UNCHANGED <<coreVars, saldosVars, tailVars>>

BatAtFile == bat_pc = "loop" /\ bat_i <= Len(pdfs)

(* sum(float(t["valor"]) for t in trans), left to right from 0.            *)
RECURSIVE SumValor(_, _)
SumValor(trans, acc) ==
    IF trans = <<>> THEN acc
    ELSE Once(LAMBDA nxt : SumValor(Tail(trans), nxt),
              DblAdd(acc, DblOfCents(Cents(ParseFloat(Head(trans).valor)))))

(* Lines 171-173: diff > diff_threshold, in doubles.                       *)
DiffAboveThreshold(saldo_ini, trans, saldo_fim) ==
    LET soma == SumValor(trans, DblOfCents(0))
        diff == DblAbs(DblSub(DblAdd(DblOfCents(Cents(saldo_ini)), soma),
                              DblOfCents(Cents(saldo_fim))))
    IN  Once(LAMBDA df : DblGreater(df, DblOfCents(THRESHOLD_CENTS)), diff)

(* Lines 174-176.                                                          *)
Tagged(trans, periodo, name) ==
    Once(LAMBDA ts : Once(LAMBDA per :
             [k \in 1..Len(ts) |-> ts[k] @@ [periodo |-> per, arquivo |-> name]],
         periodo), trans)

BatSkipped_AbortsBatch(name, why) ==
    /\ bat_log' = Append(bat_log, [arquivo |-> name, outcome |-> why, warned |-> FALSE,
                                   returned |-> <<>>])
    /\ bat_i' = Len(pdfs) + 1
    /\ UNCHANGED <<input_dir, pdfs, all_rows, bat_pc>>
    /\ UNCHANGED <<coreVars, saldosVars, tailVars>>

(* Lines 192-194: the exception is reported and the loop goes on.          *)
BatSkipped(name, why) ==
    /\ bat_log' = Append(bat_log, [arquivo |-> name, outcome |-> why, warned |-> FALSE,
                                   returned |-> <<>>])
    /\ bat_i' = bat_i + 1
    /\ UNCHANGED <<input_dir, pdfs, all_rows, bat_pc>>
    /\ UNCHANGED <<coreVars, saldosVars, tailVars>>

(* Lines 167-177, 190-191: the rows of the file are tagged, returned and   *)
(* appended to all_rows.                                                   *)
BatExtended(name, warned) ==
    \E ret \in {Tagged(extract_transacoes(input_dir[name].doc),
                        extract_periodo(input_dir[name].doc), name)} :
        /\ all_rows' = all_rows \o ret
        /\ bat_log' = Append(bat_log, [arquivo |-> name, outcome |-> "rows",
                                       warned |-> warned, returned |-> ret])
        /\ bat_i' = bat_i + 1
        /\ UNCHANGED <<input_dir, pdfs, bat_pc>>
        /\ UNCHANGED <<coreVars, saldosVars, tailVars>>

(* Lines 167, 156, 193-194: no period; the file is ignored.                *)
BatPeriodoFails ==
    /\ BatAtFile
    /\ extract_periodo(input_dir[pdfs[bat_i]].doc) = <<>>
    /\ BatSkipped(pdfs[bat_i], "periodo")

(* Lines 168, 77, 82, 193-194: extract_saldos raises; the file is ignored. *)
BatSaldosFail ==
    /\ BatAtFile
    /\ extract_periodo(input_dir[pdfs[bat_i]].doc) # <<>>
    /\ extract_saldos(input_dir[pdfs[bat_i]].words).pc # "returned"
    /\ BatSkipped(pdfs[bat_i], "saldos")

BatBothRead ==
    /\ BatAtFile
    /\ extract_periodo(input_dir[pdfs[bat_i]].doc) # <<>>
    /\ extract_saldos(input_dir[pdfs[bat_i]].words).pc = "returned"

BatAbove ==
    LET c == input_dir[pdfs[bat_i]]
        s == extract_saldos(c.words).saldos
    IN  Once(LAMBDA trans : DiffAboveThreshold(s[1], trans, s[2]),
             extract_transacoes(c.doc))

(* Lines 167-177: the balances do not close; a warning is printed.         *)
BatWarn ==
    /\ BatBothRead
    /\ BatAbove
    /\ BatExtended(pdfs[bat_i], TRUE)

(* Lines 167-177: the balances close.                                      *)
BatQuiet ==
    /\ BatBothRead
    /\ ~BatAbove
    /\ BatExtended(pdfs[bat_i], FALSE)

(* Line 195.                                                               *)
BatReturn ==
    /\ bat_pc = "loop"
    /\ bat_i > Len(pdfs)
    /\ bat_pc' = "returned"
    /\ UNCHANGED <<input_dir, pdfs, bat_i, all_rows, bat_log>>
    /\ UNCHANGED <<coreVars, saldosVars, tailVars>>

BatchNext ==
    \/ BatList
    \/ BatPeriodoFails
    \/ BatSaldosFail
    \/ BatWarn
    \/ BatQuiet
    \/ BatReturn

SpecBatch == BatchInit /\ [][BatchNext]_vars

(***************************************************************************)
(* Properties of extract_movements_from_pdf and extract_all_movements.     *)
(***************************************************************************)
RECURSIVE SumCents(_)
SumCents(trans) ==
    IF trans = <<>> THEN 0
    ELSE Cents(ParseFloat(Head(trans).valor)) + SumCents(Tail(trans))

(* |opening + sum(amounts) - closing| of a file, in hundredths.            *)
ExactDiffCents(name) ==
    LET c == input_dir[name]
        s == extract_saldos(c.words).saldos
        d == Cents(s[1]) + SumCents(extract_transacoes(c.doc)) - Cents(s[2])
    IN  IF d < 0 THEN 0 - d ELSE d

TaggedRowsOf(name) ==
    LET c == input_dir[name]
        t == extract_transacoes(c.doc)
    IN  [k \in 1..Len(t) |->
            [f \in DOMAIN t[k] \cup {"periodo", "arquivo"} |->
                IF f = "periodo" THEN extract_periodo(c.doc)
                ELSE IF f = "arquivo" THEN name ELSE t[k][f]]]

(* C12: the balance check is diagnostic only: every parsed transaction of  *)
(* the document is returned, tagged with the period and the file name,     *)
(* whether or not the balances close, and the warning is emitted exactly   *)
(* when |opening + sum(amounts) - closing| exceeds 0.05.                   *)
C12_WarningIffDifferenceExceedsThreshold ==
    \A j \in 1..Len(bat_log) :
        bat_log[j].outcome = "rows" =>
            /\ bat_log[j].returned = TaggedRowsOf(bat_log[j].arquivo)
            /\ bat_log[j].warned <=> ExactDiffCents(bat_log[j].arquivo) > THRESHOLD_CENTS

(* The part of C12 that holds: the rows are returned tagged whether or not *)
(* the warning is printed, a difference above 0.05 always warns and a      *)
(* difference below 0.05 never does.                                       *)
C12_RowsReturnedWhateverTheDifference ==
    \A j \in 1..Len(bat_log) :
        bat_log[j].outcome = "rows" =>
            /\ bat_log[j].returned = TaggedRowsOf(bat_log[j].arquivo)
            /\ ExactDiffCents(bat_log[j].arquivo) > THRESHOLD_CENTS => bat_log[j].warned
            /\ ExactDiffCents(bat_log[j].arquivo) < THRESHOLD_CENTS => ~bat_log[j].warned

C12_Witness ==
    /\ \E j \in 1..Len(bat_log) :
          /\ bat_log[j].warned
          /\ ExactDiffCents(bat_log[j].arquivo) = 5000
          /\ Len(bat_log[j].returned) = 1
    /\ \E j \in 1..Len(bat_log) :
          /\ bat_log[j].outcome = "rows" /\ ~bat_log[j].warned
          /\ ExactDiffCents(bat_log[j].arquivo) = 0
          /\ Len(bat_log[j].returned) = 1

FileFails(name) ==
    \/ extract_periodo(input_dir[name].doc) = <<>>
    \/ extract_saldos(input_dir[name].words).pc # "returned"

RECURSIVE ConcatNotFailed(_)
ConcatNotFailed(names) ==
    IF names = <<>> THEN <<>>
    ELSE (IF FileFails(Head(names)) THEN <<>> ELSE TaggedRowsOf(Head(names)))
         \o ConcatNotFailed(Tail(names))

(* q lists the *.pdf names of the directory once each, in rising order.    *)
IsSortedListing(q) ==
    /\ {q[k] : k \in 1..Len(q)} =
           {n \in DOMAIN input_dir : EndsWith(n, <<".", "p", "d", "f">>)}
    /\ \A k \in 1..Len(q) - 1 : StrLess(q[k], q[k + 1])

(* C13: a document whose period or balance extraction fails contributes no *)
(* transactions and does not stop the batch: the aggregate returned is the *)
(* concatenation, in sorted file-name order, of the transactions of every  *)
(* document that did not fail, wherever the failing documents are.         *)
C13_AggregateIsConcatenationOfNotFailed ==
    /\ bat_pc = "returned" =>
          /\ IsSortedListing(pdfs)
          /\ Len(bat_log) = Len(pdfs)
          /\ all_rows = ConcatNotFailed(pdfs)
    /\ \A j \in 1..Len(bat_log) :
          /\ bat_log[j].arquivo = pdfs[j]
          /\ FileFails(pdfs[j]) <=> bat_log[j].outcome # "rows"
          /\ FileFails(pdfs[j]) => bat_log[j].returned = <<>>

C13_Witness ==
    /\ bat_pc = "returned"
    /\ Len(bat_log) = 3
    /\ bat_log[1].outcome = "rows" /\ bat_log[1].returned # <<>>
    /\ bat_log[2].outcome = "saldos"
    /\ bat_log[3].outcome = "rows" /\ bat_log[3].returned # <<>>

(***************************************************************************)
(* Properties of extract_transacoes' scan and of parse_mov's rows.         *)
(***************************************************************************)
(* The positions at which a scan with the states BEFORE_BLOCK, IN_BLOCK    *)
(* and DONE, DONE being terminal, reaches DONE: the first trailer-marker   *)
(* line after the first line holding the header keyword.                   *)
HeaderPositions == {p \in 1..Len(doc) : doc[p] # PageBreak /\ IsHeader(doc[p])}

FirstTrailerInBlock ==
    {q \in 1..Len(doc) :
        /\ doc[q] # PageBreak /\ IsTrailer(doc[q])
        /\ \E h \in HeaderPositions : h < q /\ \A g \in HeaderPositions : h <= g
        /\ \A m \in 1..(q - 1) :
              (doc[m] # PageBreak /\ IsTrailer(doc[m])) =>
                  \A h \in HeaderPositions : m < h}

SamePage(a, b) == \A m \in a..b : doc[m] # PageBreak

(* C16: once a trailer-marker line has been seen while in the block the    *)
(* scan stops: no later line of the document is yielded, lines of later    *)
(* pages included, even if a later page holds the header keyword again.    *)
C16_NothingYieldedAfterTrailer ==
    \A q \in FirstTrailerInBlock :
        \A k \in 1..Len(out_from) : out_from[k] < q

(* The part of C16 that holds: after a trailer seen in the block no later  *)
(* line of the same page is yielded, and a line of a later page is yielded *)
(* only after a line of a later page that holds the header keyword.        *)
C16_NothingYieldedAfterTrailerUntilHeader ==
    \A q \in FirstTrailerInBlock :
        \A k \in 1..Len(out_from) :
            out_from[k] > q =>
                /\ ~SamePage(q, out_from[k])
                /\ \E h \in HeaderPositions :
                      /\ q < h /\ h < out_from[k]
                      /\ ~SamePage(q, h)

(* The lines parse_mov has gone through that were consumed by a           *)
(* continuation marker, and those it processed.                            *)
SkippedAt(q) ==
    /\ q > 1
    /\ \E k \in 1..Len(row_from) : row_from[k] = q - 1
    /\ HasMarker(Strip(lines[q - 1]))

ProcessedAt(q) == q < pos /\ ~SkippedAt(q) /\ Strip(lines[q]) # <<>>

BeginsWithDate(ln) ==
    /\ Len(ln) >= 5
    /\ IsDigit(ln[1]) /\ IsDigit(ln[2]) /\ ln[3] = "/"
    /\ IsDigit(ln[4]) /\ IsDigit(ln[5])

DatedBefore(p) ==
    {q \in 1..p : ProcessedAt(q) /\ BeginsWithDate(Strip(lines[q]))}

HasAmount(ln) ==
    VALOR_RE_search(IF BeginsWithDate(ln) THEN Strip(From(ln, 6)) ELSE ln).found

(* C17: every transaction carries the date prefix of the most recent       *)
(* processed (not skipped, not blank) line at or before it that begins     *)
(* with dd/dd; a processed line before any dated line emits nothing even   *)
(* if it holds an amount; a dated line with no parsable amount emits       *)
(* nothing but its date is the one carried by the lines after it.          *)
C17_DateCarriedForward ==
    /\ \A k \in 1..Len(rows) :
          LET D == DatedBefore(row_from[k]) IN
          /\ ProcessedAt(row_from[k])
          /\ D # {}
          /\ \E q \in D :
                /\ \A m \in D : m <= q
                /\ rows[k].data = SubSeq(Strip(lines[q]), 1, 5)
    /\ \A q \in 1..(pos - 1) :
          (ProcessedAt(q) /\ (DatedBefore(q) = {} \/ ~HasAmount(Strip(lines[q]))))
              => \A k \in 1..Len(row_from) : row_from[k] # q

C17_Witness ==
    /\ pos = 4
    /\ ~BeginsWithDate(Strip(lines[1])) /\ HasAmount(Strip(lines[1]))
    /\ BeginsWithDate(Strip(lines[2])) /\ ~HasAmount(Strip(lines[2]))
    /\ ~BeginsWithDate(Strip(lines[3]))
    /\ row_from = <<3>>
    /\ rows[1].data = SubSeq(Strip(lines[2]), 1, 5)

(* C19: the descricao_raw of each transaction is the original untrimmed    *)
(* line, exactly as the block extractor yielded it, leading and trailing   *)
(* whitespace included.                                                    *)
C19_RawDescriptionIsUntrimmedLine ==
    \A k \in 1..Len(rows) : rows[k].descricao_raw = lines[row_from[k]]

(* What holds of descricao_raw: it is the line with its leading and        *)
(* trailing whitespace removed, the date prefix and the amount kept.       *)
C19_RawDescriptionIsTrimmedLine ==
    \A k \in 1..Len(rows) :
        LET ln == lines[row_from[k]]
            d  == rows[k].descricao_raw
        IN  /\ d # <<>>
            /\ d[1] \notin Whitespace /\ d[Len(d)] \notin Whitespace
            /\ \E a \in 0..Len(ln) :
                  /\ SubSeq(ln, a + 1, a + Len(d)) = d
                  /\ \A m \in (1..a) \cup ((a + Len(d) + 1)..Len(ln)) :
                        ln[m] \in Whitespace

-----------------------------------------------------------------------------
(* SpecGaps: list_gaps (main.py lines 84-99) applied to the periods of the *)
(* CSV sorted by periodo_to_date (main.py line 194).                       *)

MaxPeriodos == 3

GapMonthNames ==
    {<<"j", "a", "n", "e", "i", "r", "o">>, <<"m", "a", "r", "ç", "o">>,
     <<"m", "a", "r", "c", "o">>, <<"a", "b", "r", "i", "l">>,
     <<"d", "e", "z", "e", "m", "b", "r", "o">>}

GapYears == {<<"2", "0", "2", "4">>, <<"2", "0", "2", "5">>}

PeriodoUnknownMonth == <<"m", "a", "r", "z", "o", "/", "2", "0", "2", "5">>

GapPeriodos ==
    {m \o <<"/">> \o y : m \in GapMonthNames, y \in GapYears} \cup {PeriodoUnknownMonth}

(* Lines 77-81: mes, ano = periodo.split("/"); MONTHS_PT.get(mes);         *)
(* datetime(int(ano), num, 1). ok is FALSE where the source raises.        *)
periodo_to_date(periodo) ==
    IF Count(periodo, "/") # 1 THEN [ok |-> FALSE, year |-> 0, month |-> 0]
    ELSE LET a   == CHOOSE i \in 1..Len(periodo) : periodo[i] = "/"
             mes == SubSeq(periodo, 1, a - 1)
             ano == From(periodo, a + 1)
             num == MONTHS_PT(mes)
         IN  IF num = 0 \/ ano = <<>> \/ \E k \in 1..Len(ano) : ~IsDigit(ano[k])
             THEN [ok |-> FALSE, year |-> 0, month |-> 0]
             ELSE IF DigitsToNat(ano) \notin 1..9999
             THEN [ok |-> FALSE, year |-> 0, month |-> 0]
             ELSE [ok |-> TRUE, year |-> DigitsToNat(ano), month |-> num]

DateOf(periodo) ==
    [year |-> periodo_to_date(periodo).year, month |-> periodo_to_date(periodo).month]

(* datetime.__lt__ for first days of months.                               *)
DateLess(a, b) == a.year < b.year \/ (a.year = b.year /\ a.month < b.month)

(* d + relativedelta(months=1) for a first day of a month.                 *)
PlusOneMonth(d) ==
    IF d.month = 12 THEN [year |-> d.year + 1, month |-> 1]
    ELSE [year |-> d.year, month |-> d.month + 1]

ZeroPad(t, w) == [k \in 1..(w - Len(t)) |-> "0"] \o t

(* d.strftime("%m/%Y").                                                    *)
Strftime(d) ==
    ZeroPad(NatToDigits(d.month), 2) \o <<"/">> \o ZeroPad(NatToDigits(d.year), 4)

(* sorted(..., key=periodo_to_date) of distinct texts: the dates do not    *)
(* fall from one position to the next.                                     *)
SortedByDate(q) ==
    \A k \in 1..(Len(q) - 1) :
        (periodo_to_date(q[k]).ok /\ periodo_to_date(q[k + 1]).ok)
            => ~DateLess(DateOf(q[k + 1]), DateOf(q[k]))

GapsInit ==
    /\ sorted_periodos \in
           {q \in SeqsUpTo(GapPeriodos, MaxPeriodos) :
               /\ \A a, b \in 1..Len(q) : a # b => q[a] # q[b]
               /\ SortedByDate(q)}
    /\ dates = <<>> /\ gaps = <<>>
    /\ cur = [year |-> 1, month |-> 1] /\ gap_i = 1 /\ gap_pc = "start"
    /\ IdleValor /\ IdleParse /\ IdleBlock /\ IdleCheck /\ IdleSaldos /\ IdleBatch
    /\ IdleMain

(* Lines 86-87.                                                            *)
GapFewerThanTwo ==
    /\ gap_pc = "start"
    /\ Len(sorted_periodos) < 2
    /\ gap_pc' = "returned"
    /\ UNCHANGED <<sorted_periodos, dates, gaps, cur, gap_i>>
    /\ UNCHANGED <<coreVars, saldosVars, batchVars, mainVars>>

(* Line 88, periodo_to_date raising at line 80 or 81.                      *)
GapRaises ==
    /\ gap_pc = "start"
    /\ Len(sorted_periodos) >= 2
    /\ \E k \in 1..Len(sorted_periodos) : ~periodo_to_date(sorted_periodos[k]).ok
    /\ gap_pc' = "raised"
    /\ UNCHANGED <<sorted_periodos, dates, gaps, cur, gap_i>>
    /\ UNCHANGED <<coreVars, saldosVars, batchVars, mainVars>>

(* Lines 88-91; gap_i is the source's i + 1.                               *)
GapConvert ==
    /\ gap_pc = "start"
    /\ Len(sorted_periodos) >= 2
    /\ \A k \in 1..Len(sorted_periodos) : periodo_to_date(sorted_periodos[k]).ok
    /\ dates' = [k \in 1..Len(sorted_periodos) |-> DateOf(sorted_periodos[k])]
    /\ cur' = PlusOneMonth(DateOf(sorted_periodos[1]))
    /\ gap_i' = 2
    /\ gap_pc' = "loop"
    /\ UNCHANGED <<sorted_periodos, gaps>>
    /\ UNCHANGED <<coreVars, saldosVars, batchVars, mainVars>>

GapAppend_SkipsAMonth ==
    /\ gap_pc = "loop"
    /\ gap_i <= Len(dates)
    /\ DateLess(cur, dates[gap_i])
    /\ gaps' = Append(gaps, Strftime(cur))
    /\ cur' = PlusOneMonth(PlusOneMonth(cur))
    /\ UNCHANGED <<sorted_periodos, dates, gap_i, gap_pc>>
    /\ UNCHANGED <<coreVars, saldosVars, batchVars, mainVars>>

(* Lines 92-95.                                                            *)
GapAppend ==
    /\ gap_pc = "loop"
    /\ gap_i <= Len(dates)
    /\ DateLess(cur, dates[gap_i])
    /\ gaps' = Append(gaps, Strftime(cur))
    /\ cur' = PlusOneMonth(cur)
    /\ UNCHANGED <<sorted_periodos, dates, gap_i, gap_pc>>
    /\ UNCHANGED <<coreVars, saldosVars, batchVars, mainVars>>

(* Lines 92-93, 96-98.                                                     *)
GapAdvance ==
    /\ gap_pc = "loop"
    /\ gap_i <= Len(dates)
    /\ ~DateLess(cur, dates[gap_i])
    /\ cur' = PlusOneMonth(dates[gap_i])
    /\ gap_i' = gap_i + 1
    /\ UNCHANGED <<sorted_periodos, dates, gaps, gap_pc>>
    /\ UNCHANGED <<coreVars, saldosVars, batchVars, mainVars>>

(* Lines 92, 99.                                                           *)
GapReturn ==
    /\ gap_pc = "loop"
    /\ gap_i > Len(dates)
    /\ gap_pc' = "returned"
    /\ UNCHANGED <<sorted_periodos, dates, gaps, cur, gap_i>>
    /\ UNCHANGED <<coreVars, saldosVars, batchVars, mainVars>>

GapsNext ==
    \/ GapFewerThanTwo
    \/ GapRaises
    \/ GapConvert
    \/ GapAppend
    \/ GapAdvance
    \/ GapReturn

SpecGaps == GapsInit /\ [][GapsNext]_vars

(* The while loop is executed to its end: no step of it waits on anything. *)
SpecGapsFair == SpecGaps /\ WF_vars(GapsNext)

(* The months of the calendar counted from year 0, and the text mm/yyyy of *)
(* the n-th.                                                               *)
MonthIndex(periodo) ==
    LET a == CHOOSE i \in 1..Len(periodo) : periodo[i] = "/"
    IN  12 * DigitsToNat(From(periodo, a + 1)) + MONTHS_PT(SubSeq(periodo, 1, a - 1)) - 1

TwoDigits(n) == <<DigitChar[(n \div 10) + 1], DigitChar[(n % 10) + 1]>>

MonthText(n) ==
    TwoDigits((n % 12) + 1) \o <<"/">>
        \o TwoDigits((n \div 12) \div 100) \o TwoDigits((n \div 12) % 100)

MissingMonths ==
    UNION {(MonthIndex(sorted_periodos[k]) + 1)..(MonthIndex(sorted_periodos[k + 1]) - 1) :
               k \in 1..(Len(sorted_periodos) - 1)}

RECURSIVE Ascending(_)
Ascending(S) ==
    IF S = {} THEN <<>>
    ELSE LET m == CHOOSE x \in S : \A y \in S : x <= y
         IN  <<MonthText(m)>> \o Ascending(S \ {m})

ListedMonthsRise ==
    \A k \in 1..(Len(sorted_periodos) - 1) :
        MonthIndex(sorted_periodos[k]) < MonthIndex(sorted_periodos[k + 1])

AllPeriodosValid ==
    \A k \in 1..Len(sorted_periodos) : periodo_to_date(sorted_periodos[k]).ok

(* C20: for a chronologically sorted list of distinct month/year periods   *)
(* the loop of list_gaps terminates and returns, in ascending order,       *)
(* exactly the months strictly between consecutive listed periods, as      *)
(* mm/yyyy; it returns the empty list for fewer than two periods and for   *)
(* contiguous periods.                                                     *)
C20_GapsAreTheMissingMonths ==
    /\ [](gap_pc = "returned" =>
            /\ Len(sorted_periodos) < 2 => gaps = <<>>
            /\ (AllPeriodosValid /\ ListedMonthsRise) =>
                  /\ gaps = Ascending(MissingMonths)
                  /\ (\A k \in 1..(Len(sorted_periodos) - 1) :
                         MonthIndex(sorted_periodos[k + 1])
                             = MonthIndex(sorted_periodos[k]) + 1) => gaps = <<>>)
    /\ ((Len(sorted_periodos) < 2 \/ (AllPeriodosValid /\ ListedMonthsRise))
            => <>(gap_pc = "returned"))

C20_Witness ==
    /\ gap_pc = "returned"
    /\ Len(sorted_periodos) = 3
    /\ AllPeriodosValid /\ ListedMonthsRise
    /\ MonthIndex(sorted_periodos[2]) = MonthIndex(sorted_periodos[1]) + 1
    /\ Len(gaps) >= 9
    /\ gaps[Len(gaps)] = <<"0", "2", "/", "2", "0", "2", "5">>
    /\ \E k \in 1..Len(gaps) : gaps[k] = <<"1", "2", "/", "2", "0", "2", "4">>

-----------------------------------------------------------------------------
(* SpecMain: main of main.py, lines 102-190. extratos and input_pdfs are   *)
(* the PDFs of extratos/ and input/ by name, each a document (lines, with  *)
(* PageBreak between pages); csv and backup are planilhas/movimentacoes.csv *)
(* and last_planilhas/movimentacoes.csv, each by the set of values of its  *)
(* periodo column, the only column main reads before the report.           *)
(* main_log[j] is what the loop did with the j-th raw PDF; main_events     *)
(* lists the file operations of steps 5 and 6 in the order they happen.    *)

MaxRaw == 2

KEY_PHRASE == <<"F", "a", "l", "e", " ", "C", "o", "n", "o", "s", "c", "o">>

LineFaleConosco ==
    <<"F", "a", "l", "e", " ", "C", "o", "n", "o", "s", "c", "o", " ", "0", "8", "0", "0">>

PeriodoMarco == <<"m", "a", "r", "ç", "o", "/", "2", "0", "2", "5">>

PeriodoAbril == <<"a", "b", "r", "i", "l", "/", "2", "0", "2", "5">>

RawMarco == <<LineFaleConosco, LineResumoMarco, PageBreak, BlkHeaderLine, LineMov150>>

RawMarcoOnePage == <<LineFaleConosco, LineResumoMarco>>

RawAbril == <<LineBlank, LineFaleConosco, PageBreak, LineResumoAbril>>

RawNoKeyPhrase == <<LineResumoMarco, LineFaleConosco>>

RawNoResumo == <<LineFaleConosco, BlkHeaderLine>>

RawCorpus == {RawMarco, RawMarcoOnePage, RawAbril, RawNoKeyPhrase, RawNoResumo}

RawNames == {FileNames[1], FileNames[2], FileNames[3]}

TrimmedEarlier ==
    <<"t", "r", "i", "m", "m", "e", "d", "_", "c", ".", "p", "d", "f">>

(* What the operator may type at the two page prompts (lines 138-141) and  *)
(* at the prompt of line 166.                                              *)
PageResponses ==
    {<<<<>>, <<>>>>, <<<<"2">>, <<>>>>, <<<<" ", "1">>, <<"1", " ">>>>,
     <<<<"2">>, <<"1">>>>, <<<<"x">>, <<>>>>, <<<<>>, <<"9">>>>, <<<<"0">>, <<"1">>>>}

RunResponses == {<<"s">>, <<" ", "S", " ">>, <<"n">>, <<>>, <<"s", "i", "m">>}

(* main.py's extract_periodo, lines 61-72: the empty text stands for       *)
(* either ValueError. Its RESUMO_RE accepts the same texts as the one of   *)
(* parse_movimentacoes.py, and group(1) holds no blank to strip.           *)
main_extract_periodo(d) ==
    LET first == PageText(d, 1)
    IN  IF ~StartsWith(From(first, SpaceRun(first, 1) + 1), KEY_PHRASE) THEN <<>>
        ELSE PeriodoFrom(d, 1)

(* get_num_pages, trim.py.                                                 *)
get_num_pages(d) == Cardinality({i \in 1..Len(d) : d[i] = PageBreak}) + 1

PageOf(d, i) == Cardinality({j \in 1..(i - 1) : d[j] = PageBreak}) + 1

(* trim_pdf: the pages start_page..end_page of the document.               *)
RECURSIVE KeepPages(_, _, _, _)
KeepPages(d, i, a, b) ==
    IF i > Len(d) THEN <<>>
    ELSE (IF /\ a <= PageOf(d, i)
             /\ PageOf(d, i) <= (IF d[i] = PageBreak THEN b - 1 ELSE b)
          THEN <<d[i]>> ELSE <<>>) \o KeepPages(d, i + 1, a, b)

trim_pdf(d, a, b) == KeepPages(d, 1, a, b)

(* int(s) if s else dflt, of the stripped response; 0 - 1 where int raises *)
PageNumber(resp, dflt) ==
    LET t == Strip(resp)
    IN  IF t = <<>> THEN dflt
        ELSE IF IntRaises(t) THEN 0 - 1
        ELSE DigitsToNat(t)

(* Lines 137-146: the range the two responses name, or <<>> for the        *)
(* ValueError.                                                             *)
PageRange(pr, total) ==
    LET start == PageNumber(pr[1], 1)
        end   == PageNumber(pr[2], total)
    IN  IF start = 0 - 1 \/ end = 0 - 1 THEN <<>>
        ELSE IF ~(1 <= start /\ start <= end /\ end <= total) THEN <<>>
        ELSE <<start, end>>

CsvFiles ==
    {[exists |-> FALSE, periodos |-> {}], [exists |-> TRUE, periodos |-> {}],
     [exists |-> TRUE, periodos |-> {PeriodoMarco}],
     [exists |-> TRUE, periodos |-> {PeriodoMarco, PeriodoAbril}]}

MainInit ==
    /\ extratos \in UNION {[N -> RawCorpus] :
                           N \in {M \in SUBSET RawNames : Cardinality(M) <= MaxRaw}}
    /\ input_pdfs \in {<<>>, [n \in {TrimmedEarlier} |-> RawMarcoOnePage]}
    /\ csv \in CsvFiles
    /\ backup = [exists |-> FALSE, periodos |-> {}]
    /\ processed = {} /\ raw_pdfs = <<>> /\ raw_i = 1 /\ new_count = 0
    /\ run_parser = FALSE /\ main_log = <<>> /\ main_events = <<>>
    /\ main_pc = "start"
    /\ IdleValor /\ IdleParse /\ IdleBlock /\ IdleCheck /\ IdleSaldos /\ IdleBatch
    /\ IdleGaps

(* Lines 110-121: no PDF in extratos/, main returns.                       *)
MainNoPdfs ==
    /\ main_pc = "start"
    /\ GlobPdf(extratos) = <<>>
    /\ processed' = IF csv.exists THEN csv.periodos ELSE {}
    /\ main_pc' = "returned"
    /\ UNCHANGED <<extratos, input_pdfs, csv, backup, raw_pdfs, raw_i, new_count,
                   run_parser, main_log, main_events>>
    /\ UNCHANGED <<coreVars, saldosVars, batchVars, gapVars>>

(* Lines 110-123.                                                          *)
MainList ==
    /\ main_pc = "start"
    /\ GlobPdf(extratos) # <<>>
    /\ processed' = IF csv.exists THEN csv.periodos ELSE {}
    /\ raw_pdfs' = GlobPdf(extratos)
    /\ main_pc' = "loop"
    /\ UNCHANGED <<extratos, input_pdfs, csv, backup, raw_i, new_count,
                   run_parser, main_log, main_events>>
    /\ UNCHANGED <<coreVars, saldosVars, batchVars, gapVars>>

MainAtPdf == main_pc = "loop" /\ raw_i <= Len(raw_pdfs)

MainLogged(did, periodo) ==
    Append(main_log, [arquivo |-> raw_pdfs[raw_i], periodo |-> periodo, did |-> did,
                      in_csv |-> csv.exists /\ periodo \in csv.periodos])

(* Lines 126-130.                                                          *)
MainIgnored ==
    /\ MainAtPdf
    /\ main_extract_periodo(extratos[raw_pdfs[raw_i]]) = <<>>
    /\ main_log' = MainLogged("ignored", <<>>)
    /\ raw_i' = raw_i + 1
    /\ UNCHANGED <<extratos, input_pdfs, csv, backup, processed, raw_pdfs, new_count,
                   run_parser, main_events, main_pc>>
    /\ UNCHANGED <<coreVars, saldosVars, batchVars, gapVars>>

(* Lines 132-135: pdf.unlink().                                            *)
MainDelete ==
    LET name    == raw_pdfs[raw_i]
        periodo == main_extract_periodo(extratos[name])
    IN  /\ MainAtPdf
        /\ periodo # <<>>
        /\ periodo \in processed
        /\ extratos' = [n \in DOMAIN extratos \ {name} |-> extratos[n]]
        /\ main_log' = MainLogged("deleted", periodo)
        /\ raw_i' = raw_i + 1
        /\ UNCHANGED <<input_pdfs, csv, backup, processed, raw_pdfs, new_count,
                       run_parser, main_events, main_pc>>
        /\ UNCHANGED <<coreVars, saldosVars, batchVars, gapVars>>

(* Lines 137-149: the responses name no valid range.                       *)
MainInvalidRange ==
    LET name    == raw_pdfs[raw_i]
        periodo == main_extract_periodo(extratos[name])
    IN  /\ MainAtPdf
        /\ periodo # <<>>
        /\ periodo \notin processed
        /\ \E pr \in PageResponses :
              PageRange(pr, get_num_pages(extratos[name])) = <<>>
        /\ main_log' = MainLogged("range", periodo)
        /\ raw_i' = raw_i + 1
        /\ UNCHANGED <<extratos, input_pdfs, csv, backup, processed, raw_pdfs,
                       new_count, run_parser, main_events, main_pc>>
        /\ UNCHANGED <<coreVars, saldosVars, batchVars, gapVars>>

(* Lines 137-154: trim_pdf writes trimmed_<name> into input/; the period   *)
(* joins processed.                                                        *)
MainTrim ==
    LET name    == raw_pdfs[raw_i]
        periodo == main_extract_periodo(extratos[name])
        out     == <<"t", "r", "i", "m", "m", "e", "d", "_">> \o name
    IN  /\ MainAtPdf
        /\ periodo # <<>>
        /\ periodo \notin processed
        /\ \E pr \in PageResponses :
              LET rg == PageRange(pr, get_num_pages(extratos[name])) IN
              /\ rg # <<>>
              /\ input_pdfs' = [n \in DOMAIN input_pdfs \cup {out} |->
                                   IF n = out THEN trim_pdf(extratos[name], rg[1], rg[2])
                                   ELSE input_pdfs[n]]
        /\ processed' = processed \cup {periodo}
        /\ new_count' = new_count + 1
        /\ main_log' = MainLogged("trimmed", periodo)
        /\ raw_i' = raw_i + 1
        /\ UNCHANGED <<extratos, csv, backup, raw_pdfs, run_parser, main_events, main_pc>>
        /\ UNCHANGED <<coreVars, saldosVars, batchVars, gapVars>>

MainLoopOver == main_pc = "loop" /\ raw_i > Len(raw_pdfs)

Event(op, resp) == [op |-> op, resp |-> resp]

MainDecided(run, why, resp) ==
    /\ run_parser' = run
    /\ main_events' = Append(main_events, Event(why, resp))
    /\ main_pc' = "step5"
    /\ UNCHANGED <<extratos, input_pdfs, csv, backup, processed, raw_pdfs, raw_i,
                   new_count, main_log>>
    /\ UNCHANGED <<coreVars, saldosVars, batchVars, gapVars>>

(* Lines 158-161.                                                          *)
MainRunCsvAbsent ==
    /\ MainLoopOver
    /\ ~csv.exists
    /\ MainDecided(TRUE, "csv_absent", <<>>)

(* Lines 162-164.                                                          *)
MainRunNewTrims ==
    /\ MainLoopOver
    /\ csv.exists
    /\ new_count > 0
    /\ MainDecided(TRUE, "new_trims", <<>>)

(* Lines 165-172.                                                          *)
MainAsk ==
    /\ MainLoopOver
    /\ csv.exists
    /\ new_count = 0
    /\ \E resp \in RunResponses :
          MainDecided(Lower(Strip(resp)) = <<"s">>, "asked", resp)

(* Lines 174-179: CSV_PATH.replace(backup_target).                         *)
MainBackup ==
    /\ main_pc = "step5"
    /\ run_parser
    /\ csv.exists
    /\ backup' = csv
    /\ csv' = [exists |-> FALSE, periodos |-> {}]
    /\ main_events' = Append(main_events, Event("backup", <<>>))
    /\ main_pc' = "step6"
    /\ UNCHANGED <<extratos, input_pdfs, processed, raw_pdfs, raw_i, new_count,
                   run_parser, main_log>>
    /\ UNCHANGED <<coreVars, saldosVars, batchVars, gapVars>>

(* Lines 174-175: there is no CSV to move.                                 *)
MainNoBackup ==
    /\ main_pc = "step5"
    /\ run_parser
    /\ ~csv.exists
    /\ main_pc' = "step6"
    /\ UNCHANGED <<extratos, input_pdfs, csv, backup, processed, raw_pdfs, raw_i,
                   new_count, run_parser, main_log, main_events>>
    /\ UNCHANGED <<coreVars, saldosVars, batchVars, gapVars>>

(* The files of input/ extract_all_movements can read a period from; which *)
(* of them yield rows is decided by their balances and movement block      *)
(* (SpecBatch) and is left open here.                                      *)
Readable ==
    {n \in DOMAIN input_pdfs :
        /\ EndsWith(n, <<".", "p", "d", "f">>)
        /\ extract_periodo(input_pdfs[n]) # <<>>}

(* Lines 181-183: rows were extracted; write_movements_csv.                *)
MainWrite ==
    /\ main_pc = "step6"
    /\ \E Y \in SUBSET Readable :
          /\ Y # {}
          /\ csv' = [exists |-> TRUE,
                     periodos |-> {extract_periodo(input_pdfs[n]) : n \in Y}]
    /\ main_events' = main_events \o <<Event("extract", <<>>), Event("write", <<>>)>>
    /\ main_pc' = "report"
    /\ UNCHANGED <<extratos, input_pdfs, backup, processed, raw_pdfs, raw_i, new_count,
                   run_parser, main_log>>
    /\ UNCHANGED <<coreVars, saldosVars, batchVars, gapVars>>

(* Lines 181-185: no row was extracted; nothing is written.                *)
MainNoRows ==
    /\ main_pc = "step6"
    /\ main_events' = Append(main_events, Event("extract", <<>>))
    /\ main_pc' = "report"
    /\ UNCHANGED <<extratos, input_pdfs, csv, backup, processed, raw_pdfs, raw_i,
                   new_count, run_parser, main_log>>
    /\ UNCHANGED <<coreVars, saldosVars, batchVars, gapVars>>

(* Lines 186-187.                                                          *)
MainNotRun ==
    /\ main_pc = "step5"
    /\ ~run_parser
    /\ main_pc' = "report"
    /\ UNCHANGED <<extratos, input_pdfs, csv, backup, processed, raw_pdfs, raw_i,
                   new_count, run_parser, main_log, main_events>>
    /\ UNCHANGED <<coreVars, saldosVars, batchVars, gapVars>>

MainReport_AlwaysReports ==
    /\ main_pc = "report"
    /\ main_pc' = "done"
    /\ UNCHANGED <<extratos, input_pdfs, csv, backup, processed, raw_pdfs, raw_i,
                   new_count, run_parser, main_log, main_events>>
    /\ UNCHANGED <<coreVars, saldosVars, batchVars, gapVars>>

(* Lines 189-191: sys.exit when there is no CSV, the report otherwise.     *)
MainReport ==
    /\ main_pc = "report"
    /\ main_pc' = IF csv.exists THEN "done" ELSE "exit"
    /\ UNCHANGED <<extratos, input_pdfs, csv, backup, processed, raw_pdfs, raw_i,
                   new_count, run_parser, main_log, main_events>>
    /\ UNCHANGED <<coreVars, saldosVars, batchVars, gapVars>>

MainNext ==
    \/ MainNoPdfs
    \/ MainList
    \/ MainIgnored
    \/ MainDelete
    \/ MainInvalidRange
    \/ MainTrim
    \/ MainRunCsvAbsent
    \/ MainRunNewTrims
    \/ MainAsk
    \/ MainBackup
    \/ MainNoBackup
    \/ MainWrite
    \/ MainNoRows
    \/ MainNotRun
    \/ MainReport

SpecMain == MainInit /\ [][MainNext]_vars

(* C14: a raw PDF whose period can be extracted is deleted from extratos/  *)
(* and skipped only if its period is already in movimentacoes.csv; one     *)
(* whose period is not in the CSV is never deleted and is offered for      *)
(* page-range trimming into input/.                                        *)
C14_DeletedOnlyIfPeriodInCsv ==
    \A j \in 1..Len(main_log) :
        LET e == main_log[j] IN
        e.periodo # <<>> =>
            /\ e.did = "deleted" <=> e.in_csv
            /\ e.did = "deleted" <=> e.arquivo \notin DOMAIN extratos
            /\ ~e.in_csv => e.did \in {"trimmed", "range"}

TrimmedBefore(j) ==
    \E i \in 1..(j - 1) :
        main_log[i].did = "trimmed" /\ main_log[i].periodo = main_log[j].periodo

(* What holds of the loop: a raw PDF is deleted exactly when its period is *)
(* in the CSV or was trimmed earlier in the same run; every other PDF with *)
(* a period stays in extratos/ and is offered for trimming.                *)
C14_DeletedIffPeriodInCsvOrTrimmedBefore ==
    \A j \in 1..Len(main_log) :
        LET e == main_log[j] IN
        e.periodo # <<>> =>
            /\ e.did = "deleted" <=> (e.in_csv \/ TrimmedBefore(j))
            /\ e.did = "deleted" <=> e.arquivo \notin DOMAIN extratos
            /\ e.did # "deleted" => e.did \in {"trimmed", "range"}

HasEvent(op) == \E k \in 1..Len(main_events) : main_events[k].op = op

AnsweredS ==
    \E k \in 1..Len(main_events) :
        /\ main_events[k].op = "asked"
        /\ Lower(Strip(main_events[k].resp)) = <<"s">>

MovedBeforeWritten ==
    \A w \in 1..Len(main_events) :
        (main_events[w].op = "write" /\ backup.exists) =>
            \E b \in 1..(w - 1) : main_events[b].op = "backup"

(* The steps of the run that change the CSV, and what they require.        *)
CsvStepsInOrder ==
    /\ (main_pc = "step5" /\ run_parser /\ csv.exists) =>
           /\ backup' = csv /\ ~csv'.exists
           /\ main_pc' = "step6"
    /\ (main_pc = "step5" /\ ~run_parser) => csv' = csv
    /\ csv' # csv => run_parser /\ main_pc \in {"step5", "step6"}
    /\ (csv'.exists /\ csv' # csv) => ~csv.exists

(* C15: extraction over input/ is executed if and only if the CSV is       *)
(* absent, or at least one PDF was trimmed in this run, or the operator    *)
(* answers s; when it is executed and a CSV exists the CSV is moved to     *)
(* last_planilhas/ before the new one is written; when it is not executed  *)
(* the CSV is left unchanged.                                              *)
C15_ExtractionIffCsvAbsentOrTrimmedOrAsked ==
    /\ [](main_pc = "step5" =>
             (run_parser <=> (~csv.exists \/ new_count > 0 \/ AnsweredS)))
    /\ [](main_pc = "returned" =>
             (HasEvent("extract") <=> (~csv.exists \/ new_count > 0 \/ AnsweredS)))
    /\ [](main_pc \in {"report", "done", "exit"} => (HasEvent("extract") <=> run_parser))
    /\ [](MovedBeforeWritten)
    /\ [][CsvStepsInOrder]_vars

(* What holds: the same, for the runs that find a PDF in extratos/; a run  *)
(* that finds none returns without asking, extracting or touching the CSV. *)
C15_ExtractionIffTriggerWhenRawPdfsExist ==
    /\ [](main_pc = "step5" =>
             (run_parser <=> (~csv.exists \/ new_count > 0 \/ AnsweredS)))
    /\ [](main_pc = "returned" => (main_events = <<>> /\ ~backup.exists))
    /\ [](main_pc \in {"report", "done", "exit"} => (HasEvent("extract") <=> run_parser))
    /\ [](MovedBeforeWritten)
    /\ [][CsvStepsInOrder]_vars

(* One step of parse_mov over a line reached with skip_next set, and a     *)
(* step that sets skip_next.                                               *)
SkipStepOnlyClearsSkipNext ==
    /\ (skip_next /\ pos <= Len(lines)) =>
           /\ ~skip_next'
           /\ current_date' = current_date
           /\ rows' = rows
           /\ pos' = pos + 1
    /\ (~skip_next /\ skip_next') =>
           /\ Len(rows') = Len(rows) + 1
           /\ row_from' = Append(row_from, pos)

(* C21: a line discarded because skip_next was set changes nothing but     *)
(* skip_next, which it clears: it does not update the carried date even if *)
(* it begins with a date, emits no transaction, and does not set skip_next *)
(* again even if it holds a continuation marker; skip_next is only ever    *)
(* set by a line that emitted a transaction.                               *)
C21_SkippedLineOnlyClearsSkipNext == [][SkipStepOnlyClearsSkipNext]_vars

C21_Witness ==
    /\ pos >= 3
    /\ SkippedAt(pos - 1)
    /\ BeginsWithDate(Strip(lines[pos - 1]))
    /\ SubSeq(Strip(lines[pos - 1]), 1, 5) # current_date
    /\ HasMarker(Strip(lines[pos - 1]))
    /\ HasAmount(Strip(lines[pos - 1]))
    /\ ~skip_next
    /\ \A k \in 1..Len(row_from) : row_from[k] # pos - 1

(* A transaction of extrato_df whose amount is above 0.01: a receipt.      *)
IsReceived(t) == ~t.valor.neg /\ Cents(t.valor) > EPSILON_CENTS

(* The text of the Valor field the j-th processed entry was read from.     *)
RefTextOf(j) == Strip(ref_csv[RefOf(j).idx + 1].Valor)

(* C22: every ValorNum is a non-positive number, and no transaction whose  *)
(* amount is greater than 0.01 (a received movement) is a candidate of any *)
(* reference entry or is consumed or reported as the match of one,         *)
(* whatever sign the reference amount is written with and whatever the     *)
(* operator answers at a prompt.                                           *)
C22_ReceivedNeverCandidate ==
    /\ \A i \in 1..Len(referencia_df) :
           referencia_df[i].ValorNum.ok /\ Cents(referencia_df[i].ValorNum) <= 0
    /\ \A k \in 1..Len(extrato_df) :
           IsReceived(extrato_df[k]) =>
               /\ extrato_df[k].idx \notin usados
               /\ \A j \in 1..Len(log) :
                      /\ \A c \in 1..Len(log[j].cands) :
                             log[j].cands[c] # extrato_df[k].idx
                      /\ extrato_df[k].idx \notin UsadosAfter(j)
                      /\ IsFound(j) => MatchedIdx(j) # extrato_df[k].idx

(* The operator was prompted for an entry whose amount is written with a   *)
(* minus sign while a receipt of the same month and the same magnitude is  *)
(* in the extract, and answered with an ordinal; an entry written with a   *)
(* plus sign was processed too.                                            *)
C22_Witness ==
    /\ chk_pc = "done"
    /\ \E j \in 1..Len(log) :
           /\ log[j].prompted /\ IsFound(j)
           /\ Head(RefTextOf(j)) = "-"
           /\ \E k \in 1..Len(extrato_df) :
                  /\ IsReceived(extrato_df[k])
                  /\ extrato_df[k].Mes = RefOf(j).Mes
                  /\ Magnitude(extrato_df[k].valor) = Magnitude(RefOf(j).ValorNum)
    /\ \E j \in 1..Len(log) : Head(RefTextOf(j)) = "+"

(* Extraction ran after the CSV was moved away and yielded no row.         *)
MovedAndNothingExtracted ==
    HasEvent("backup") /\ HasEvent("extract") /\ ~HasEvent("write")

(* Step 7 decides on the file at planilhas/movimentacoes.csv alone.        *)
ReportStepFollowsCsv ==
    main_pc = "report" =>
        /\ main_pc' = (IF csv.exists THEN "done" ELSE "exit")
        /\ csv' = csv /\ backup' = backup

(* C23: when extraction is executed while a CSV exists and yields no       *)
(* transaction, the old CSV has already been moved to last_planilhas/ and  *)
(* no new one is written, so step 7 ends the run with the fatal exit and   *)
(* no file at planilhas/movimentacoes.csv; a run that reaches the final    *)
(* report has a CSV at that path.                                          *)
C23_NoRowsAfterBackupEndsInExit ==
    /\ [](MovedAndNothingExtracted =>
              /\ backup.exists /\ ~csv.exists
              /\ main_pc \in {"report", "exit"})
    /\ [](main_pc = "done" => csv.exists)
    /\ [](main_pc = "exit" => ~csv.exists /\ HasEvent("extract") /\ ~HasEvent("write"))
    /\ [][ReportStepFollowsCsv]_vars

(* The run exited at step 7 after a CSV holding periods was moved to       *)
(* last_planilhas/ and extraction over input/ yielded nothing.             *)
C23_Witness ==
    /\ main_pc = "exit"
    /\ MovedAndNothingExtracted
    /\ backup.exists /\ backup.periodos # {}
    /\ ~csv.exists
    /\ DOMAIN input_pdfs # {}

=============================================================================
